---- MODULE Spec2Model ----
(***************************************************************************)
(* Site bootstrap pipeline of the blog template: init-blog.sh (two         *)
(* revisions), bootstrap-template.sh and the Python steps they embed.      *)
(*                                                                         *)
(* Text is a sequence of symbols.  A symbol is a piece of text that the    *)
(* programs treat as a unit: a single letter, a placeholder token          *)
(* ("__BRAND__"), a historical brand/domain string ("myugc.studio"), a     *)
(* piece of markup.  The text a sequence stands for is the concatenation   *)
(* of its symbols; substring search and replacement work on sub-sequences. *)
(* File paths and file contents (HTML, XML, JS and image bytes) are all    *)
(* such sequences, and the file system is a function from the paths that   *)
(* exist to their contents.                                                *)
(***************************************************************************)
EXTENDS Integers, Sequences, FiniteSets, TLC

VARIABLES
    fs,        \* the site directory: [existing path -> content]
    pc,        \* position of the running script
    runNo,     \* number of the current invocation on this site directory
    script,    \* which revision of init-blog.sh is run: "theme" or "shell"
    argv,      \* command line of the invocation: sequence of words
    sh,        \* shell variables / exported environment of the invocation
    key,       \* API credential found in the environment ("unread" before)
    api,       \* outcome of each external request of this invocation
    todo,      \* HTML files the substitution pass has still to rewrite
    exitCode,  \* exit status, -1 while the script runs
    stdout,    \* messages printed so far (tags)
    fsStart,   \* site directory when the current invocation started
    prev,      \* <<record>> of the previous invocation's end, or << >>
    topicIn,   \* palette unit: topic under test
    paletteOut, \* palette unit: palette computed for topicIn
    other,     \* <<context>> of a second invocation that is not on the CPU,
               \* << >> when a single invocation runs
    location,  \* browser: location.pathname of the page
    navigator, \* browser: [language, bot] as the page's scripts see them
    localStorage, \* browser: [site_lang_selected], "null" when not stored
    sel,       \* browser: language the user picked in the switcher to get to
               \* this page, "none" if the page was not reached that way
    page,      \* browser: "load" while the page's script has still to run,
               \* "ready" once it ran, "none" when no page is open
    hops,      \* browser: redirects made by the script since the last
               \* navigation of the user
    history,   \* chat widget: roles of the conversation history, in order
    msgContainer, \* chat widget: classes of the elements of #anna-messages
    pending,   \* chat widget: sendMessage calls waiting at an await
    chatStore, \* chat widget: localStorage 'anna-chat-history' (roles)
    imgFs,     \* image optimizer: [existing file -> state of its content]
    imgBig,    \* image optimizer: files of at least 120 KiB at the start
    imgDir,    \* image optimizer: index of the target directory being done
    imgQueue,  \* image optimizer: files of that directory still to do
    imgCalls,  \* image optimizer: files optimizeOne was called on, in order
    imgLog,    \* image optimizer: errors logged, as [file, step] records
    videos,    \* page generator: the videos array of the API response
    sitemap,   \* page generator: entries of sitemap.xml, in order
    watchDir,  \* page generator: files of the watch directory
    genRuns,   \* page generator: runs made so far
    genOut     \* page generator: <<[written, added, status]>> of the last run

vars == <<fs, pc, runNo, script, argv, sh, key, api, todo, exitCode, stdout,
          fsStart, prev, topicIn, paletteOut, other,
          location, navigator, localStorage, sel, page, hops,
          history, msgContainer, pending, chatStore,
          imgFs, imgBig, imgDir, imgQueue, imgCalls, imgLog,
          videos, sitemap, watchDir, genRuns, genOut>>

pipelineVars == <<fs, pc, runNo, script, argv, sh, key, api, todo, exitCode,
                  stdout, fsStart, prev>>

paletteVars == <<topicIn, paletteOut>>

schedVars == <<other>>

i18nVars == <<location, navigator, localStorage, sel, page, hops>>

chatVars == <<history, msgContainer, pending, chatStore>>

imgVars == <<imgFs, imgBig, imgDir, imgQueue, imgCalls, imgLog>>

genVars == <<videos, sitemap, watchDir, genRuns, genOut>>

\* what belongs to the pages served from the site and to the maintenance
\* scripts, not to the bootstrap of the site directory
clientVars == <<i18nVars, chatVars, imgVars, genVars>>

(***************************************************************************)
(* Bounds of the model.                                                    *)
(***************************************************************************)
MaxRuns == 2

MaxTopicLen == 4

\* largest magnitude of a number given on the command line
MaxInt == 999

(***************************************************************************)
(* Text primitives.                                                        *)
(***************************************************************************)

\* s starts with the sub-sequence pat
StartsWith(s, pat) ==
    /\ Len(s) >= Len(pat)
    /\ SubSeq(s, 1, Len(pat)) = pat

\* pat occurs in s (grep / str.find on literal text)
Contains(s, pat) ==
    \E i \in 1..(Len(s) - Len(pat) + 1) : SubSeq(s, i, i + Len(pat) - 1) = pat

RECURSIVE replace(_, _, _)
\* Python str.replace(old, new): every non-overlapping occurrence, scanning
\* from the left; the inserted text is not scanned again.
replace(s, old, new) ==
    IF Len(s) < Len(old) \/ Len(old) = 0 THEN s
    ELSE IF StartsWith(s, old)
         THEN new \o replace(SubSeq(s, Len(old) + 1, Len(s)), old, new)
         ELSE <<Head(s)>> \o replace(Tail(s), old, new)

RECURSIVE Flatten(_)
\* concatenation of a sequence of texts
Flatten(ss) == IF ss = << >> THEN << >> ELSE Head(ss) \o Flatten(Tail(ss))

\* s with every symbol c replaced by the text f[c]
MapSyms(s, F(_)) == Flatten([i \in 1..Len(s) |-> F(s[i])])

\* write content c to path p (creating or overwriting)
WriteFile(f, p, c) == [q \in (DOMAIN f) \cup {p} |-> IF q = p THEN c ELSE f[q]]

Exists(f, p) == p \in DOMAIN f


(***************************************************************************)
(* Paths of the site directory.                                            *)
(***************************************************************************)
HomeShellPath == <<"universal_blog_shell.html">>
BlogShellPath == <<"universal_blog_index.html">>
IndexPath == <<"index.html">>
TemplatePath == <<"blog/template.html">>
SitemapPath == <<"sitemap.xml">>
ThemeConfigPath == <<"theme.config.js">>
LogoPath == <<"logo.png">>
HeroPath == <<"hero_ai.jpg">>

\* the blog listing pages, one per locale, in the order of the loop
BlogPages == << <<"blog/index.html">>, <<"ru/blog/index.html">>,
                <<"es/blog/index.html">>, <<"de/blog/index.html">>,
                <<"fr/blog/index.html">> >>

PolicyPages == << <<"policy/privacy/index.html">>, <<"policy/terms/index.html">>,
                  <<"policy/refund/index.html">> >>

Range(q) == {q[i] : i \in 1..Len(q)}

\* every HTML file the site directory can hold, in directory order
HtmlOrder ==
    <<TemplatePath>> \o BlogPages \o <<IndexPath>> \o PolicyPages
        \o <<BlogShellPath, HomeShellPath>>

\* root.rglob('*.html'): the HTML files that exist, as the walk yields them
rglob_html(f) == SelectSeq(HtmlOrder, LAMBDA p : Exists(f, p))

\* files the bootstrap globs select: *.html *.xml *.txt *.js *.json
TextGlob == Range(HtmlOrder) \cup {SitemapPath, ThemeConfigPath}

(***************************************************************************)
(* tr '[:upper:]' '[:lower:]' on the symbols the inputs are built from.    *)
(***************************************************************************)
LowerSym(c) ==
    CASE c = "W" -> "w"
      [] c = "V" -> "v"
      [] c = "A" -> "a"
      [] c = "B" -> "b"
      [] c = "Acme" -> "acme"
      [] c = "__BRAND__" -> "__brand__"
      [] c = "__DOMAIN__" -> "__domain__"
      [] c = "My UGC Studio" -> "my ugc studio"
      [] OTHER -> c

ToLower(s) == [i \in 1..Len(s) |-> LowerSym(s[i])]

(***************************************************************************)
(* init-blog.sh, SLUG: sed 's/[^a-z0-9]/-/g; s/--*/-/g; s/^-//; s/-$//'    *)
(***************************************************************************)
\* s/[^a-z0-9]/-/g on one (lower-cased) symbol
DashSym(c) ==
    CASE c \in {"a", "b", "acme", "w", "v", "i", "n", "e", "o", "x"} -> <<c>>
      [] c = "__brand__" -> <<"-", "-", "brand", "-", "-">>
      [] c = "__domain__" -> <<"-", "-", "domain", "-", "-">>
      [] c = "my ugc studio" -> <<"my", "-", "ugc", "-", "studio">>
      [] OTHER -> <<"-">>

RECURSIVE SqueezeDashes(_)
\* s/--*/-/g
SqueezeDashes(s) ==
    IF Len(s) < 2 THEN s
    ELSE IF s[1] = "-" /\ s[2] = "-" THEN SqueezeDashes(Tail(s))
         ELSE <<Head(s)>> \o SqueezeDashes(Tail(s))

\* s/^-//; s/-$//
TrimDash(s) ==
    LET a == IF s # << >> /\ Head(s) = "-" THEN Tail(s) ELSE s
    IN  IF a # << >> /\ a[Len(a)] = "-" THEN SubSeq(a, 1, Len(a) - 1) ELSE a

Slug(brand) ==
    LET t == TrimDash(SqueezeDashes(MapSyms(ToLower(brand), DashSym)))
    IN  IF t = << >> THEN <<"site">> ELSE t

LogoFile(brand) == <<"logo-">> \o Slug(brand) \o <<".png">>
HeroFile(brand) == <<"hero-">> \o Slug(brand) \o <<".png">>

(***************************************************************************)
(* init-blog.sh, palette selection.                                        *)
(***************************************************************************)
WinePalette ==
    [INIT_BG0 |-> <<"#12070c">>, INIT_BG1 |-> <<"#2a0d16">>, INIT_BG2 |-> <<"#4f1424">>,
     INIT_ACCENT |-> <<"#b63a5a">>, INIT_ACCENT_HOVER |-> <<"#962f49">>,
     INIT_RAD1 |-> <<"rgba(144,22,56,.45)">>, INIT_RAD2 |-> <<"rgba(188,88,116,.28)">>,
     INIT_RAD3 |-> <<"rgba(92,16,37,.42)">>]

DefaultPalette ==
    [INIT_BG0 |-> <<"#0a0514">>, INIT_BG1 |-> <<"#1a0a2e">>, INIT_BG2 |-> <<"#2d1b4e">>,
     INIT_ACCENT |-> <<"#8b5cf6">>, INIT_ACCENT_HOVER |-> <<"#7c3aed">>,
     INIT_RAD1 |-> <<"rgba(139, 92, 246, ", "0.40", ")">>,
     INIT_RAD2 |-> <<"rgba(168, 85, 247, ", "0.30", ")">>,
     INIT_RAD3 |-> <<"rgba(217, 70, 239, ", "0.30", ")">>]

\* a matcher that knows the English word only
OnlyWineMatch(lc) ==
    Contains(lc, <<"w", "i", "n", "e">>)

\* grep -Eq 'wine|vino|vin'
WineMatch(lc) ==
    \/ Contains(lc, <<"w", "i", "n", "e">>)
    \/ Contains(lc, <<"v", "i", "n", "o">>)
    \/ Contains(lc, <<"v", "i", "n">>)

Palette(topic) ==
    IF WineMatch(ToLower(topic)) THEN WinePalette ELSE DefaultPalette

(***************************************************************************)
(* Argument parsing of init-blog.sh (both revisions).                      *)
(***************************************************************************)
FlagVar ==
    [f \in {"--domain", "--brand", "--topic", "--speed", "--subscribe-email",
            "--animation"} |->
        CASE f = "--domain" -> "INIT_DOMAIN"
          [] f = "--brand" -> "INIT_BRAND"
          [] f = "--topic" -> "INIT_TOPIC"
          [] f = "--speed" -> "INIT_SPEED"
          [] f = "--subscribe-email" -> "INIT_SUBSCRIBE_EMAIL"
          [] f = "--animation" -> "INIT_ANIMATION"]

\* the flags the case statement of each revision knows
KnownFlags(sc) ==
    IF sc = "shell"
    THEN {"--domain", "--brand", "--topic", "--speed", "--subscribe-email"}
    ELSE {"--domain", "--brand", "--topic", "--animation", "--speed"}

\* the variables as initialised before the loop
ShellDefaults(sc) ==
    [INIT_DOMAIN |-> << >>, INIT_BRAND |-> << >>, INIT_TOPIC |-> << >>,
     INIT_SPEED |-> IF sc = "shell" THEN <<"26">> ELSE <<"18">>,
     INIT_SUBSCRIBE_EMAIL |-> << >>,
     INIT_ANIMATION |-> <<"drift">>]

RECURSIVE ParseArgs(_, _, _)
\* while [[ $# -gt 0 ]]; do case "$1" in ... esac; done   under set -e:
\* VAR="${2:-}" takes the empty string when the value is missing, and the
\* following 'shift 2' then fails and ends the script.
ParseArgs(args, acc, known) ==
    IF args = << >> THEN [status |-> "ok", v |-> acc]
    ELSE IF Len(Head(args)) = 1 /\ Head(args)[1] \in known
         THEN IF Len(args) < 2
              THEN [status |-> "shift",
                    v |-> [acc EXCEPT ![FlagVar[Head(args)[1]]] = << >>]]
              ELSE ParseArgs(SubSeq(args, 3, Len(args)),
                             [acc EXCEPT ![FlagVar[Head(args)[1]]] = args[2]],
                             known)
         ELSE [status |-> "unknown", v |-> acc]

\* [[ -z "$DOMAIN" || -z "$BRAND" || -z "$TOPIC" ]]
MissingRequired(v) == v.INIT_DOMAIN = << >> \/ v.INIT_BRAND = << >> \/ v.INIT_TOPIC = << >>

(***************************************************************************)
(* bootstrap-template.sh                                                   *)
(***************************************************************************)
OldDomain == <<"myugc.studio">>
OldBrand == <<"My UGC Studio">>
OldBrandCaps == <<"MYUGC Studio">>

\* rg -l "myugc\.studio|My UGC Studio|MYUGC Studio"
HasBootstrapToken(c) ==
    Contains(c, OldDomain) \/ Contains(c, OldBrand) \/ Contains(c, OldBrandCaps)

\* the replacement part of a sed s command: an unescaped & is the matched text
SedReplacement(rep, matched) ==
    MapSyms(rep, LAMBDA c : IF c = "&" THEN matched ELSE <<c>>)

\* sed "s/<pat>/$VALUE/g" with a literal pattern
sed_s(s, pat, rep) == replace(s, pat, SedReplacement(rep, pat))

\* the three sed commands of the loop body, in order
BootstrapFile(c, domain, brand) ==
    sed_s(sed_s(sed_s(c, OldDomain, domain), OldBrand, brand), OldBrandCaps, brand)

LastmodToday == "<lastmod>TODAY</lastmod>"
LastmodSyms == {"<lastmod>2020-01-01</lastmod>", LastmodToday}

\* sed "s#<lastmod>[0-9]{4}-[0-9]{2}-[0-9]{2}</lastmod>#<lastmod>${TODAY}</lastmod>#g"
ResetLastmod(c) ==
    [i \in 1..Len(c) |-> IF c[i] \in LastmodSyms THEN LastmodToday ELSE c[i]]

\* the whole script: token replacement in the selected files, then sitemap dates
Bootstrap(f, domain, brand) ==
    [p \in DOMAIN f |->
        LET c == IF p \in TextGlob /\ HasBootstrapToken(f[p])
                 THEN BootstrapFile(f[p], domain, brand)
                 ELSE f[p]
        IN  IF p = SitemapPath THEN ResetLastmod(c) ELSE c]

(***************************************************************************)
(* init-blog.sh (placeholder revision): the embedded Python step.          *)
(***************************************************************************)
\* outcomes of one request to the generation service
ApiFailures == {"network", "http", "noimage", "unparseable"}
ApiOutcomes == {"ok"} \cup ApiFailures

GeneratedLogo == <<"generated-logo">>
GeneratedHero == <<"generated-hero">>

\* if key: try: logo = gen(...); write_bytes(logo)  except Exception: warn
GenAsset(f, path, outcome, bytes) ==
    IF outcome = "ok" THEN WriteFile(f, path, bytes) ELSE f

\* a provisioning step that never creates the brand file
SkipBrandCopy(f, brandFile, canonical) == f

\* lines 108-111: the brand file is created from the canonical one
BrandFromCanonical(f, brandFile, canonical) ==
    IF ~Exists(f, brandFile) /\ Exists(f, canonical)
    THEN WriteFile(f, brandFile, f[canonical]) ELSE f

\* a provisioning step that never writes the canonical file
KeepCanonical(f, brandFile, canonical) == f

\* lines 114-117: the canonical file is overwritten with the brand file
CanonicalFromBrand(f, brandFile, canonical) ==
    IF Exists(f, brandFile) THEN WriteFile(f, canonical, f[brandFile]) ELSE f

CanonicalAssets(f, e) ==
    LET f1 == BrandFromCanonical(f, e.INIT_LOGO_FILE, LogoPath)
        f2 == BrandFromCanonical(f1, e.INIT_HERO_FILE, HeroPath)
        f3 == CanonicalFromBrand(f2, e.INIT_LOGO_FILE, LogoPath)
    IN  CanonicalFromBrand(f3, e.INIT_HERO_FILE, HeroPath)

RECURSIVE WriteAll(_, _, _)
\* write the same content to each path of a list
WriteAll(f, paths, c) ==
    IF paths = << >> THEN f
    ELSE WriteAll(WriteFile(f, Head(paths), c), Tail(paths), c)

\* lines 126-133: home page and the per-locale blog listing pages
WritePages(f) ==
    WriteAll(WriteFile(f, IndexPath, f[HomeShellPath]), BlogPages, f[BlogShellPath])

\* the table with the subscribe address always derived from the domain
ReplTableDefaultEmail(e) ==
    << <<"__BRAND__", e.INIT_BRAND>>,
       <<"__DOMAIN__", e.INIT_DOMAIN>>,
       <<"__LOGO_FILE__", e.INIT_LOGO_FILE>>,
       <<"__HERO_FILE__", e.INIT_HERO_FILE>>,
       <<"__BG0__", e.INIT_BG0>>,
       <<"__BG1__", e.INIT_BG1>>,
       <<"__BG2__", e.INIT_BG2>>,
       <<"__ACCENT__", e.INIT_ACCENT>>,
       <<"__ACCENT_HOVER__", e.INIT_ACCENT_HOVER>>,
       <<"__RAD1__", e.INIT_RAD1>>,
       <<"__RAD2__", e.INIT_RAD2>>,
       <<"__RAD3__", e.INIT_RAD3>>,
       <<"__ANIM_SPEED__", e.INIT_SPEED>>,
       <<"__HERO_TITLE__", e.INIT_BRAND \o <<": practical insights about ">> \o e.INIT_TOPIC>>,
       <<"__HERO_SUBTITLE__",
         <<"Actionable guides and frameworks for ">> \o e.INIT_TOPIC \o <<".">> >>,
       <<"__SUBSCRIBE_EMAIL__", <<"info@">> \o e.INIT_DOMAIN>> >>

\* the repl dict, in insertion order
ReplTable(e) ==
    << <<"__BRAND__", e.INIT_BRAND>>,
       <<"__DOMAIN__", e.INIT_DOMAIN>>,
       <<"__LOGO_FILE__", e.INIT_LOGO_FILE>>,
       <<"__HERO_FILE__", e.INIT_HERO_FILE>>,
       <<"__BG0__", e.INIT_BG0>>,
       <<"__BG1__", e.INIT_BG1>>,
       <<"__BG2__", e.INIT_BG2>>,
       <<"__ACCENT__", e.INIT_ACCENT>>,
       <<"__ACCENT_HOVER__", e.INIT_ACCENT_HOVER>>,
       <<"__RAD1__", e.INIT_RAD1>>,
       <<"__RAD2__", e.INIT_RAD2>>,
       <<"__RAD3__", e.INIT_RAD3>>,
       <<"__ANIM_SPEED__", e.INIT_SPEED>>,
       <<"__HERO_TITLE__", e.INIT_BRAND \o <<": practical insights about ">> \o e.INIT_TOPIC>>,
       <<"__HERO_SUBTITLE__",
         <<"Actionable guides and frameworks for ">> \o e.INIT_TOPIC \o <<".">> >>,
       <<"__SUBSCRIBE_EMAIL__", e.INIT_SUBSCRIBE_EMAIL>> >>

RECURSIVE ApplyRepl(_, _)
\* for k,v in repl.items(): s = s.replace(k, v)
ApplyRepl(s, table) ==
    IF table = << >> THEN s
    ELSE ApplyRepl(replace(s, <<Head(table)[1]>>, Head(table)[2]), Tail(table))

\* body of the rglob loop for one file
SubstituteHtml(s, e) ==
    replace(replace(ApplyRepl(s, ReplTable(e)), <<"web.", "myugc.studio">>, e.INIT_DOMAIN),
            <<"myugc.studio">>, e.INIT_DOMAIN)

(***************************************************************************)
(* write_policy_pages                                                      *)
(***************************************************************************)
\* page(title, body_html) with base_css
PolicyPage(title, body, e) ==
    <<"<title>", title, " | ">> \o e.INIT_BRAND \o <<"</title>", "href=/logo.png",
      "<style>", ":root{--bg-dark:">> \o e.INIT_BG0
      \o <<";--bg-gradient:linear-gradient(135deg,">> \o e.INIT_BG0 \o <<" 0%,">>
      \o e.INIT_BG1 \o <<" 50%,">> \o e.INIT_BG2 \o <<" 100%);--accent:">>
      \o e.INIT_ACCENT \o <<";--accent-hover:">> \o e.INIT_ACCENT_HOVER
      \o <<";", "</style>", "alt=">> \o e.INIT_BRAND \o <<" logo", "<h1>", title>>
      \o body \o <<"(c) 2026 ">> \o e.INIT_BRAND

\* a contact link that keeps the address of the template
MailtoTemplate(domain) ==
    <<"mailto:info@", "myugc.studio", "\">info@", "myugc.studio">>

\* href="mailto:info@{domain}">info@{domain}
MailtoInfo(domain) ==
    <<"mailto:info@">> \o domain \o <<"\">info@">> \o domain

PolicyBody(i, domain) ==
    CASE i = 1 -> <<"This policy applies to <b>">> \o domain \o <<"</b>">>
                    \o MailtoInfo(domain)
      [] i = 2 -> <<"By using <b>">> \o domain \o <<"</b>">> \o MailtoInfo(domain)
      [] i = 3 -> <<"This site is a content blog.">> \o MailtoInfo(domain)

PolicyTitle(i) ==
    CASE i = 1 -> "Privacy Policy" [] i = 2 -> "Terms of Service" [] i = 3 -> "Refund Policy"

RECURSIVE WritePolicyFrom(_, _, _)
WritePolicyFrom(f, i, e) ==
    IF i > Len(PolicyPages) THEN f
    ELSE WritePolicyFrom(
            WriteFile(f, PolicyPages[i],
                      PolicyPage(PolicyTitle(i), PolicyBody(i, e.INIT_DOMAIN), e)),
            i + 1, e)

write_policy_pages(f, e) == WritePolicyFrom(f, 1, e)

(***************************************************************************)
(* patch_blog_template_palette                                             *)
(***************************************************************************)
\* symbols that match #[0-9a-fA-F]{3,8}
HexSyms ==
    {"#12070c", "#2a0d16", "#4f1424", "#b63a5a", "#962f49",
     "#0a0514", "#1a0a2e", "#2d1b4e", "#8b5cf6", "#7c3aed", "#22d3ee",
     "#0A0514", "#1A0A2E", "#2D1B4E", "#8B5CF6", "#7C3AED", "#fff"}

\* symbols that match [0-9.]+
AlphaSyms == {"0.40", "0.30", ".45"}

\* hex_to_rgb(accent), as the text rgba({ar}, {ag}, {ab},
AccentRgba(accent) ==
    CASE accent = <<"#b63a5a">> -> "rgba(182, 58, 90, "
      [] accent = <<"#8b5cf6">> -> "rgba(139, 92, 246, "

RECURSIVE SkipSpaces(_, _)
\* index of the first symbol at or after i that is not white space (\s*)
SkipSpaces(s, i) ==
    IF i <= Len(s) /\ s[i] = " " THEN SkipSpaces(s, i + 1) ELSE i

RECURSIVE SubVar(_, _, _)
\* re.sub(r'<name>\s*#[0-9a-fA-F]{3,8}\s*;', f'<name> {value};', s)
SubVar(s, name, value) ==
    IF s = << >> THEN << >>
    ELSE LET j == SkipSpaces(s, 2)
             k == SkipSpaces(s, j + 1)
         IN  IF /\ s[1] = name
                /\ k <= Len(s)
                /\ s[j] \in HexSyms
                /\ s[k] = ";"
             THEN <<name, " ">> \o value \o <<";">>
                    \o SubVar(SubSeq(s, k + 1, Len(s)), name, value)
             ELSE <<Head(s)>> \o SubVar(Tail(s), name, value)

RECURSIVE FirstSemi(_, _)
\* index of the first ";" at or after i, Len(s)+1 when there is none
FirstSemi(s, i) ==
    IF i > Len(s) \/ s[i] = ";" THEN i ELSE FirstSemi(s, i + 1)

RECURSIVE SubGradient(_, _)
\* re.sub(r'--bg-gradient:\s*linear-gradient\([^;]+\);', ...)
SubGradient(s, e) ==
    IF s = << >> THEN << >>
    ELSE LET j == SkipSpaces(s, 2)
             m == FirstSemi(s, j + 1)
         IN  IF /\ s[1] = "--bg-gradient:"
                /\ m <= Len(s)
                /\ s[j] = "linear-gradient("
                /\ m - 1 > j + 1
                /\ s[m - 1] = ")"
             THEN <<"--bg-gradient:", " ", "linear-gradient(", "135deg, ">>
                    \o e.INIT_BG0 \o <<" 0%, ">> \o e.INIT_BG1 \o <<" 50%, ">>
                    \o e.INIT_BG2 \o <<" 100%", ")", ";">>
                    \o SubGradient(SubSeq(s, m + 1, Len(s)), e)
             ELSE <<Head(s)>> \o SubGradient(Tail(s), e)

\* upper-case form of a legacy palette value (old.upper())
UpperHex(h) ==
    CASE h = "#0a0514" -> "#0A0514"
      [] h = "#1a0a2e" -> "#1A0A2E"
      [] h = "#2d1b4e" -> "#2D1B4E"
      [] h = "#8b5cf6" -> "#8B5CF6"
      [] h = "#7c3aed" -> "#7C3AED"

\* the legacy palette dict, in insertion order
LegacyTable(e) ==
    << <<"#0a0514", e.INIT_BG0>>, <<"#1a0a2e", e.INIT_BG1>>, <<"#2d1b4e", e.INIT_BG2>>,
       <<"#8b5cf6", e.INIT_ACCENT>>, <<"#7c3aed", e.INIT_ACCENT_HOVER>> >>

RECURSIVE ReplaceLegacy(_, _)
\* for old, new in {...}.items(): s = s.replace(old, new).replace(old.upper(), new)
ReplaceLegacy(s, table) ==
    IF table = << >> THEN s
    ELSE ReplaceLegacy(
            replace(replace(s, <<Head(table)[1]>>, Head(table)[2]),
                    <<UpperHex(Head(table)[1])>>, Head(table)[2]),
            Tail(table))

\* symbols for the legacy colours, with and without blanks
LegacyPurple == {"rgba(139, 92, 246, ", "rgba(139,92,246,"}
LegacyViolet == {"rgba(168, 85, 247, ", "rgba(168,85,247,"}
LegacyPink == {"rgba(217, 70, 239, ", "rgba(217,70,239,"}

\* re.sub(r'rgba\(\s*R\s*,\s*G\s*,\s*B\s*,\s*([0-9.]+)\s*\)', rf'rgba({ar}, {ag}, {ab}, \1)', s)
SubRgba(s, legacy, accent) ==
    [i \in 1..Len(s) |->
        IF /\ s[i] \in legacy
           /\ i + 2 <= Len(s)
           /\ s[i + 1] \in AlphaSyms
           /\ s[i + 2] = ")"
        THEN AccentRgba(accent) ELSE s[i]]

\* length of the rgba(...) text starting at i, 0 when there is none
RgbaLen(s, i) ==
    IF i > Len(s) THEN 0
    ELSE IF s[i] \in {"rgba(144,22,56,.45)", "rgba(188,88,116,.28)", "rgba(92,16,37,.42)"}
         THEN 1
         ELSE IF /\ s[i] \in LegacyPurple \cup LegacyViolet \cup LegacyPink
                        \cup {"rgba(182, 58, 90, "}
                 /\ i + 2 <= Len(s)
                 /\ s[i + 2] = ")"
              THEN 3 ELSE 0

RadialTail == " 0%, transparent 35%)"

RECURSIVE SubRadial(_, _, _)
\* re.sub(r'radial-gradient\(circle at X% Y%,\s*rgba\([^\)]*\)\s*0%,\s*transparent\s*35%\)', ...)
SubRadial(s, head, rad) ==
    IF s = << >> THEN << >>
    ELSE LET n == RgbaLen(s, 2)
         IN  IF /\ s[1] = head
                /\ n > 0
                /\ 2 + n <= Len(s)
                /\ s[2 + n] = RadialTail
             THEN <<head>> \o rad \o <<RadialTail>>
                    \o SubRadial(SubSeq(s, 3 + n, Len(s)), head, rad)
             ELSE <<Head(s)>> \o SubRadial(Tail(s), head, rad)

Radial1 == "radial-gradient(circle at 15% 25%, "
Radial2 == "radial-gradient(circle at 85% 15%, "

PatchText(s, e) ==
    LET s1 == SubVar(s, "--bg-dark:", e.INIT_BG0)
        s2 == SubGradient(s1, e)
        s3 == SubVar(s2, "--accent-green:", e.INIT_ACCENT)
        s4 == SubVar(s3, "--accent-hover:", e.INIT_ACCENT_HOVER)
        s5 == ReplaceLegacy(s4, LegacyTable(e))
        s6 == SubRgba(s5, LegacyPurple, e.INIT_ACCENT)
        s7 == SubRgba(s6, LegacyViolet, e.INIT_ACCENT)
        s8 == SubRgba(s7, LegacyPink, e.INIT_ACCENT)
        s9 == SubRadial(s8, Radial1, e.INIT_RAD1)
    IN  SubRadial(s9, Radial2, e.INIT_RAD2)

patch_blog_template_palette(f, e) ==
    IF ~Exists(f, TemplatePath) THEN f
    ELSE WriteFile(f, TemplatePath, PatchText(f[TemplatePath], e))

(***************************************************************************)
(* init-blog.sh (placeholder revision): logo transparency post-processing  *)
(***************************************************************************)
ConvertOutcomes == {"absent", "probefail", "convertfail", "ok"}

\* what convert -alpha set -fuzz 18% -transparent does to the image bytes
Transparent(b) == IF b[Len(b)] = "+alpha" THEN b ELSE Append(b, "+alpha")

PostProcessLogo(f, logoFile, outcome) ==
    IF outcome = "absent" \/ ~Exists(f, logoFile) \/ outcome = "probefail" THEN f
    ELSE LET g == IF outcome = "ok"
                  THEN WriteFile(f, logoFile, Transparent(f[logoFile]))
                  ELSE f
         IN  WriteFile(g, LogoPath, g[logoFile])

(***************************************************************************)
(* init-blog.sh (theme.config.js revision): the embedded Python step.      *)
(***************************************************************************)
RECURSIVE LStrip(_)
LStrip(s) == IF s # << >> /\ Head(s) = " " THEN LStrip(Tail(s)) ELSE s

RECURSIVE RStrip(_)
RStrip(s) ==
    IF s # << >> /\ s[Len(s)] = " " THEN RStrip(SubSeq(s, 1, Len(s) - 1)) ELSE s

\* str.strip()
Strip(s) == RStrip(LStrip(s))

\* int(text) succeeds
IsInt(w) == Len(w) = 1 /\ \E n \in (-MaxInt)..MaxInt : ToString(n) = w[1]

\* int(text)
ParseInt(w) == CHOOSE n \in (-MaxInt)..MaxInt : ToString(n) = w[1]

MinSpeedSec == 8
MaxSpeedSec == 60

Min(a, b) == IF a < b THEN a ELSE b
Max(a, b) == IF a > b THEN a ELSE b

\* max(8, min(60, speed))
ClampSpeed(speed) == Max(MinSpeedSec, Min(MaxSpeedSec, speed))

ColorKeys == <<"bg0", "bg1", "bg2", "accent", "accent2">>

DefaultColors ==
    [bg0 |-> <<"#0a0514">>, bg1 |-> <<"#1a0a2e">>, bg2 |-> <<"#2d1b4e">>,
     accent |-> <<"#8b5cf6">>, accent2 |-> <<"#22d3ee">>]

\* v.startswith("#")
StartsWithHash(v) == v # << >> /\ v[1] \in HexSyms \cup {"#wine"}

\* colours of the parsed copy replace the defaults, key by key
MergeColors(colors, parsed) ==
    [k \in Range(ColorKeys) |->
        IF k \in DOMAIN parsed /\ StartsWithHash(parsed[k]) THEN parsed[k] ELSE colors[k]]

\* the "colors" objects the text model is taken to answer with
CopyColorAnswers ==
    { [accent |-> <<"#b63a5a">>, bg0 |-> <<"#12070c">>],
      [accent |-> <<"#fff">>, accent2 |-> <<"red">>],
      [accent2 |-> <<"#wine">>] }

CopyFailures == ApiFailures \cup {"badjson"}

\* json.dumps of a string (ensure_ascii=False)
JsonString(s) ==
    <<"\"">> \o MapSyms(s, LAMBDA c : IF c = "\"" THEN <<"\\\"">> ELSE <<c>>) \o <<"\"">>

RECURSIVE JsonColors(_, _)
JsonColors(colors, keys) ==
    IF keys = << >> THEN << >>
    ELSE <<Head(keys), ": ">> \o JsonString(colors[Head(keys)])
            \o JsonColors(colors, Tail(keys))

SpeedKey == "animationSpeedSec: "

\* "window.BLOG_THEME = " + json.dumps(cfg, ensure_ascii=False, indent=2) + ";\n"
ThemeConfigText(e) ==
    <<"window.BLOG_THEME = {", "siteName: ">> \o JsonString(e.brand)
      \o <<"heroTitle: ">> \o JsonString(e.hero_title)
      \o <<"heroSubtitle: ">> \o JsonString(e.hero_subtitle)
      \o <<"heroImage: ", "\"", "/hero_ai.jpg", "\"">>
      \o <<"animationType: ">>
      \o JsonString(IF e.anim \in {<<"drift">>, <<"pulse">>, <<"wave">>}
                    THEN e.anim ELSE <<"drift">>)
      \o <<SpeedKey, ToString(ClampSpeed(e.speed))>>
      \o <<"colors: {">> \o JsonColors(e.colors, ColorKeys) \o <<"}", "};">>

\* the Python variables set before the first request
ThemeLocals(v) ==
    LET brand == Strip(v.INIT_BRAND)
        topic == Strip(v.INIT_TOPIC)
    IN  [brand |-> brand,
         domain |-> Strip(v.INIT_DOMAIN),
         topic |-> topic,
         anim |-> Strip(v.INIT_ANIMATION),
         speed |-> ParseInt(v.INIT_SPEED),
         hero_title |-> brand \o <<": practical insights about ">> \o topic,
         hero_subtitle |-> <<"Actionable guides for ">> \o topic \o <<".">>,
         colors |-> DefaultColors]

(***************************************************************************)
(* Inputs: command lines and site directories.                             *)
(***************************************************************************)
Domains == { <<"yas.wine">>, <<"new", "myugc.studio">>, <<"__BRAND__", ".com">> }
Brands == { <<"Acme">>, <<"A", "&", "B">>, <<"__DOMAIN__">> }
Topics == { <<"W", "i", "n", "e">>, <<"x">> }

Flag(name) == <<name>>

SpeedArgs == { << >>, <<Flag("--speed"), <<"5">> >>, <<Flag("--speed"), <<"999">> >> }
EmailArgs == { << >>, <<Flag("--subscribe-email"), <<"me@x.org">> >> }
AnimationArgs == { << >>, <<Flag("--animation"), <<"wave">> >> }

\* command lines that give the three required values
ValidArgvs ==
    { <<Flag("--domain"), d, Flag("--brand"), b, Flag("--topic"), t>> \o s \o m \o a :
        d \in Domains, b \in Brands, t \in Topics,
        s \in SpeedArgs, m \in EmailArgs, a \in AnimationArgs }

BaseArgv ==
    <<Flag("--domain"), <<"yas.wine">>, Flag("--brand"), <<"Acme">>,
      Flag("--topic"), <<"W", "i", "n", "e">> >>

Required == <<"--domain", "--brand", "--topic">>

\* the two words of required flag i in BaseArgv, and BaseArgv without them
FlagPair(i) == SubSeq(BaseArgv, 2 * i - 1, 2 * i)
Without(i) == SubSeq(BaseArgv, 1, 2 * i - 2) \o SubSeq(BaseArgv, 2 * i + 1, 6)

\* command lines with a required value missing, empty or cut off, or with an
\* unknown word
DefectiveArgvs ==
    {Without(i) : i \in 1..3}
      \cup {Without(i) \o <<Flag(Required[i]), << >> >> : i \in 1..3}
      \cup {Without(i) \o <<Flag(Required[i])>> : i \in 1..3}
      \cup {BaseArgv \o <<Flag("--bogus")>>, << >>}

HomeShell ==
    <<"<title>", "__BRAND__", "</title>", "https://", "__DOMAIN__",
      "src=", "__LOGO_FILE__", "src=", "__HERO_FILE__",
      "__BG0__", "__BG1__", "__BG2__", "__ACCENT__", "__ACCENT_HOVER__",
      "__RAD1__", "__RAD2__", "__RAD3__",
      "anim:", "__ANIM_SPEED__", "s",
      "<h1>", "__HERO_TITLE__", "</h1>", "__HERO_SUBTITLE__",
      "mailto:", "__SUBSCRIBE_EMAIL__",
      "https://", "web.", "myugc.studio", "by ", "My UGC Studio">>

BlogShell ==
    <<"<title>", "__BRAND__", " blog", "</title>", "https://", "__DOMAIN__",
      "/blog/", "https://", "myugc.studio", "MYUGC Studio">>

TemplateHtml ==
    <<"--bg-dark:", "#0a0514", ";",
      "--bg-gradient:", " ", "linear-gradient(", "#0a0514", "#2d1b4e", ")", ";",
      "--accent-green:", "#8b5cf6", ";", "--accent-hover:", " ", "#7c3aed", ";",
      "color:", "#8B5CF6", ";",
      "rgba(168,85,247,", "0.30", ")",
      Radial1, "rgba(139, 92, 246, ", "0.40", ")", RadialTail,
      Radial2, "rgba(217, 70, 239, ", "0.30", ")", RadialTail,
      "<title>", "__BRAND__", "</title>", "https://", "web.", "myugc.studio">>

Sitemap0 == <<"<loc>", "https://", "yas.wine", "</loc>", "<lastmod>2020-01-01</lastmod>">>

ThemeConfig0 == <<"window.BLOG_THEME = {", "siteName: ", "\"", "My UGC Studio", "\"",
                  SpeedKey, "28", "};">>

DefaultLogo == <<"default-logo">>
DefaultHero == <<"default-hero">>
OtherLogo == <<"earlier-logo">>

\* the files every site directory of the model has
CommonFiles ==
    (TemplatePath :> TemplateHtml) @@ (SitemapPath :> Sitemap0)
        @@ (ThemeConfigPath :> ThemeConfig0)

Opt(path, contents) == {<< >>} \cup {(path :> c) : c \in contents}

\* the freshly copied template
BaseSite ==
    CommonFiles @@ (HomeShellPath :> HomeShell) @@ (BlogShellPath :> BlogShell)
        @@ (LogoPath :> DefaultLogo) @@ (HeroPath :> DefaultHero)

\* site directories with shells or images missing, or with a brand-suffixed
\* logo left by an earlier run with the same brand
SiteVariants(brand) ==
    { CommonFiles @@ h @@ b @@ l @@ lb @@ he :
        h \in Opt(HomeShellPath, {HomeShell}),
        b \in Opt(BlogShellPath, {BlogShell}),
        l \in Opt(LogoPath, {DefaultLogo}),
        lb \in Opt(LogoFile(brand), {OtherLogo}),
        he \in Opt(HeroPath, {DefaultHero}) }

(***************************************************************************)
(* State machine of one site directory and the invocations run on it.      *)
(***************************************************************************)
EmptyEnv ==
    [INIT_DOMAIN |-> << >>, INIT_BRAND |-> << >>, INIT_TOPIC |-> << >>,
     INIT_SPEED |-> << >>, INIT_SUBSCRIBE_EMAIL |-> << >>, INIT_ANIMATION |-> << >>,
     INIT_LOGO_FILE |-> << >>, INIT_HERO_FILE |-> << >>,
     INIT_BG0 |-> << >>, INIT_BG1 |-> << >>, INIT_BG2 |-> << >>,
     INIT_ACCENT |-> << >>, INIT_ACCENT_HOVER |-> << >>,
     INIT_RAD1 |-> << >>, INIT_RAD2 |-> << >>, INIT_RAD3 |-> << >>,
     py |-> << >>]

\* outcome of each request of the invocation, and the requests sent, in order
NoApi ==
    [copy |-> "none", logo |-> "none", hero |-> "none", convert |-> "none",
     sent |-> << >>]

PaletteIdle == topicIn = << >> /\ paletteOut = << >>

\* no second invocation
Alone == other = << >>

\* no page of the site is open in a browser
BrowserIdle ==
    /\ location = << >>
    /\ navigator = [language |-> << >>, bot |-> FALSE]
    /\ localStorage = [site_lang_selected |-> "null"]
    /\ sel = "none"
    /\ page = "none"
    /\ hops = 0

\* the chat widget is not on a page
ChatIdle ==
    /\ history = << >>
    /\ msgContainer = << >>
    /\ pending = [fetch |-> 0, stream |-> 0]
    /\ chatStore = << >>

\* the image optimizer is not running
ImgIdle ==
    /\ imgFs = << >>
    /\ imgBig = {}
    /\ imgDir = 0
    /\ imgQueue = << >>
    /\ imgCalls = << >>
    /\ imgLog = << >>

\* the page generator is not running
GenIdle ==
    /\ videos = << >>
    /\ sitemap = << >>
    /\ watchDir = {}
    /\ genRuns = 0
    /\ genOut = << >>

ClientIdle == BrowserIdle /\ ChatIdle /\ ImgIdle /\ GenIdle

InitRun(f, a, sc, k) ==
    /\ fs = f
    /\ fsStart = f
    /\ argv = a
    /\ script = sc
    /\ key = k
    /\ pc = "args"
    /\ runNo = 1
    /\ sh = EmptyEnv
    /\ api = NoApi
    /\ todo = << >>
    /\ exitCode = -1
    /\ stdout = {}
    /\ prev = << >>
    /\ PaletteIdle

\* every command line on a freshly copied template without credential, and
\* the base command line on every site directory with and without credential
Init ==
    /\ Alone
    /\ ClientIdle
    /\ \/ \E a \in ValidArgvs \cup DefectiveArgvs, sc \in {"shell", "theme"} :
             InitRun(BaseSite, a, sc, FALSE)
       \/ \E f \in SiteVariants(<<"Acme">>), sc \in {"shell", "theme"}, k \in BOOLEAN :
             InitRun(f, BaseArgv, sc, k)

\* the script ends with the given status
Exit(code, msgs) ==
    /\ pc' = "done"
    /\ exitCode' = code
    /\ stdout' = stdout \cup msgs

\* lines 10-28 of init-blog.sh: the argument loop, the required-value check
\* and the default of the subscribe address
ParseAndValidate ==
    /\ pc = "args"
    /\ LET r == ParseArgs(argv, ShellDefaults(script), KnownFlags(script))
       IN  CASE r.status = "unknown" ->
                  /\ Exit(1, {"Unknown arg"})
                  /\ UNCHANGED sh
             [] r.status = "shift" ->
                  /\ Exit(1, {})
                  /\ UNCHANGED sh
             [] r.status = "ok" /\ MissingRequired(r.v) ->
                  /\ Exit(1, {"Usage"})
                  /\ UNCHANGED sh
             [] OTHER ->
                  /\ pc' = "bootstrap"
                  /\ sh' = [(r.v @@ EmptyEnv) EXCEPT !.INIT_SUBSCRIBE_EMAIL =
                              IF script = "shell" /\ r.v.INIT_SUBSCRIBE_EMAIL = << >>
                              THEN <<"info@">> \o r.v.INIT_DOMAIN
                              ELSE r.v.INIT_SUBSCRIBE_EMAIL]
                  /\ UNCHANGED <<exitCode, stdout>>
    /\ UNCHANGED <<fs, runNo, script, argv, key, api, todo, fsStart, prev>>
    /\ UNCHANGED <<paletteVars, schedVars, clientVars>>

\* bash scripts/bootstrap-template.sh --domain "$DOMAIN" --brand "$BRAND"
RunBootstrap ==
    /\ pc = "bootstrap"
    /\ LET r == ParseArgs(<<Flag("--domain"), sh.INIT_DOMAIN, Flag("--brand"), sh.INIT_BRAND>>,
                          ShellDefaults(script), {"--domain", "--brand"})
       IN  IF r.status # "ok" \/ r.v.INIT_DOMAIN = << >> \/ r.v.INIT_BRAND = << >>
           THEN /\ Exit(1, {"Usage: bootstrap"})
                /\ UNCHANGED fs
           ELSE /\ fs' = Bootstrap(fs, r.v.INIT_DOMAIN, r.v.INIT_BRAND)
                /\ pc' = IF script = "shell" THEN "palette" ELSE "copy"
                /\ stdout' = stdout \cup {"Bootstrap done"}
                /\ UNCHANGED exitCode
    /\ UNCHANGED <<runNo, script, argv, sh, key, api, todo, fsStart, prev>>
    /\ UNCHANGED <<paletteVars, schedVars, clientVars>>

\* lines 35-63: slug, asset file names, palette, exports
ComputePaletteAndNames ==
    /\ pc = "palette"
    /\ sh' = Palette(sh.INIT_TOPIC)
               @@ [INIT_LOGO_FILE |-> LogoFile(sh.INIT_BRAND),
                   INIT_HERO_FILE |-> HeroFile(sh.INIT_BRAND)]
               @@ sh
    /\ pc' = "logo"
    /\ UNCHANGED <<fs, runNo, script, argv, key, api, todo, exitCode, stdout,
                   fsStart, prev>>
    /\ UNCHANGED <<paletteVars, schedVars, clientVars>>

\* logo generation whose failure is not caught and ends the script
GenerateLogoUncaught ==
    /\ pc = "logo"
    /\ IF key
       THEN \E o \in ApiOutcomes :
               /\ fs' = GenAsset(fs, sh.INIT_LOGO_FILE, o, GeneratedLogo)
               /\ api' = [api EXCEPT !.logo = o, !.sent = Append(@, "logo")]
               /\ IF o = "ok"
                  THEN /\ pc' = "hero"
                       /\ stdout' = stdout \cup {"[ok] logo generated"}
                       /\ UNCHANGED exitCode
                  ELSE Exit(1, {"Traceback"})
       ELSE /\ pc' = "hero"
            /\ UNCHANGED <<fs, api, stdout, exitCode>>
    /\ UNCHANGED <<runNo, script, argv, sh, key, todo, fsStart, prev>>
    /\ UNCHANGED <<paletteVars, schedVars, clientVars>>

\* logo generation that sends the request a second time when it failed
GenerateLogoRetry ==
    /\ pc = "logo"
    /\ IF key
       THEN \E o \in ApiOutcomes :
               /\ fs' = GenAsset(fs, sh.INIT_LOGO_FILE, o, GeneratedLogo)
               /\ api' = [api EXCEPT !.logo = o, !.sent = Append(@, "logo")]
               /\ stdout' = stdout \cup {IF o = "ok" THEN "[ok] logo generated"
                                         ELSE "[warn] logo generation failed"}
               /\ pc' = IF o # "ok" /\ api.sent = << >> THEN "logo" ELSE "hero"
       ELSE /\ pc' = "hero"
            /\ UNCHANGED <<fs, api, stdout>>
    /\ UNCHANGED <<runNo, script, argv, sh, key, todo, exitCode, fsStart, prev>>
    /\ UNCHANGED <<paletteVars, schedVars, clientVars>>

\* lines 93-99: guarded logo generation
GenerateLogo ==
    /\ pc = "logo"
    /\ IF key
       THEN \E o \in ApiOutcomes :
               /\ fs' = GenAsset(fs, sh.INIT_LOGO_FILE, o, GeneratedLogo)
               /\ api' = [api EXCEPT !.logo = o, !.sent = Append(@, "logo")]
               /\ stdout' = stdout \cup {IF o = "ok" THEN "[ok] logo generated"
                                         ELSE "[warn] logo generation failed"}
       ELSE UNCHANGED <<fs, api, stdout>>
    /\ pc' = "hero"
    /\ UNCHANGED <<runNo, script, argv, sh, key, todo, exitCode, fsStart, prev>>
    /\ UNCHANGED <<paletteVars, schedVars, clientVars>>

\* lines 101-106: guarded hero generation
GenerateHero ==
    /\ pc = "hero"
    /\ IF key
       THEN \E o \in ApiOutcomes :
               /\ fs' = GenAsset(fs, sh.INIT_HERO_FILE, o, GeneratedHero)
               /\ api' = [api EXCEPT !.hero = o, !.sent = Append(@, "hero")]
               /\ stdout' = stdout \cup {IF o = "ok" THEN "[ok] hero generated"
                                         ELSE "[warn] hero generation failed"}
       ELSE UNCHANGED <<fs, api, stdout>>
    /\ pc' = "canon"
    /\ UNCHANGED <<runNo, script, argv, sh, key, todo, exitCode, fsStart, prev>>
    /\ UNCHANGED <<paletteVars, schedVars, clientVars>>

\* lines 108-117
CopyCanonicalAssets ==
    /\ pc = "canon"
    /\ fs' = CanonicalAssets(fs, sh)
    /\ pc' = "shells"
    /\ UNCHANGED <<runNo, script, argv, sh, key, api, todo, exitCode, stdout,
                   fsStart, prev>>
    /\ UNCHANGED <<paletteVars, schedVars, clientVars>>

\* a script that writes the policy pages right after the shell check
CheckShellsThenPolicy ==
    /\ pc = "shells"
    /\ IF ~Exists(fs, HomeShellPath) \/ ~Exists(fs, BlogShellPath)
       THEN Exit(1, {"Missing shell"})
       ELSE /\ pc' = "policy"
            /\ UNCHANGED <<exitCode, stdout>>
    /\ UNCHANGED <<fs, runNo, script, argv, sh, key, api, todo, fsStart, prev>>
    /\ UNCHANGED <<paletteVars, schedVars, clientVars>>

\* lines 119-124: raise SystemExit(...) ends Python, and set -e the script
CheckShells ==
    /\ pc = "shells"
    /\ IF ~Exists(fs, HomeShellPath)
       THEN Exit(1, {"Missing universal_blog_shell.html"})
       ELSE IF ~Exists(fs, BlogShellPath)
            THEN Exit(1, {"Missing universal_blog_index.html"})
            ELSE /\ pc' = "pages"
                 /\ UNCHANGED <<exitCode, stdout>>
    /\ UNCHANGED <<fs, runNo, script, argv, sh, key, api, todo, fsStart, prev>>
    /\ UNCHANGED <<paletteVars, schedVars, clientVars>>

\* lines 126-154: pages written, then the walk over the HTML files starts
MaterializePages ==
    /\ pc = "pages"
    /\ fs' = WritePages(fs)
    /\ todo' = rglob_html(fs')
    /\ pc' = "pass"
    /\ UNCHANGED <<runNo, script, argv, sh, key, api, exitCode, stdout, fsStart, prev>>
    /\ UNCHANGED <<paletteVars, schedVars, clientVars>>

\* lines 154-160: one iteration of the substitution loop
SubstituteFile ==
    /\ pc = "pass"
    /\ todo # << >>
    /\ fs' = WriteFile(fs, Head(todo), SubstituteHtml(fs[Head(todo)], sh))
    /\ todo' = Tail(todo)
    /\ pc' = IF Tail(todo) = << >> THEN "policy" ELSE "pass"
    /\ UNCHANGED <<runNo, script, argv, sh, key, api, exitCode, stdout, fsStart, prev>>
    /\ UNCHANGED <<paletteVars, schedVars, clientVars>>

\* line 232
WritePolicyPages ==
    /\ pc = "policy"
    /\ fs' = write_policy_pages(fs, sh)
    /\ pc' = "patch"
    /\ UNCHANGED <<runNo, script, argv, sh, key, api, todo, exitCode, stdout,
                   fsStart, prev>>
    /\ UNCHANGED <<paletteVars, schedVars, clientVars>>

\* lines 283-285
PatchTemplate ==
    /\ pc = "patch"
    /\ fs' = patch_blog_template_palette(fs, sh)
    /\ pc' = "post"
    /\ stdout' = stdout \cup {"[ok] html placeholders applied"}
    /\ UNCHANGED <<runNo, script, argv, sh, key, api, todo, exitCode, fsStart, prev>>
    /\ UNCHANGED <<paletteVars, schedVars, clientVars>>

\* lines 288-295: every command failure is ignored
\* the post-processing without its '|| true' guards: a failing convert ends
\* the script under set -e
PostProcessFatal ==
    /\ pc = "post"
    /\ \E o \in ConvertOutcomes :
          /\ fs' = PostProcessLogo(fs, sh.INIT_LOGO_FILE, o)
          /\ api' = [api EXCEPT !.convert = o]
          /\ IF o \in {"probefail", "convertfail"}
             THEN /\ pc' = "done"
                  /\ exitCode' = 1
             ELSE /\ pc' = "finish"
                  /\ UNCHANGED exitCode
    /\ UNCHANGED <<runNo, script, argv, sh, key, todo, stdout, fsStart, prev>>
    /\ UNCHANGED <<paletteVars, schedVars, clientVars>>

\* lines 286-293: the transparency post-processing of the logo
PostProcess ==
    /\ pc = "post"
    /\ \E o \in ConvertOutcomes :
          /\ fs' = PostProcessLogo(fs, sh.INIT_LOGO_FILE, o)
          /\ api' = [api EXCEPT !.convert = o]
    /\ pc' = "finish"
    /\ UNCHANGED <<runNo, script, argv, sh, key, todo, exitCode, stdout, fsStart, prev>>
    /\ UNCHANGED <<paletteVars, schedVars, clientVars>>

\* echo "Init completed ..." as the last command
Finish ==
    /\ pc = "finish"
    /\ Exit(0, {"Init completed"})
    /\ UNCHANGED <<fs, runNo, script, argv, sh, key, api, todo, fsStart, prev>>
    /\ UNCHANGED <<paletteVars, schedVars, clientVars>>

\* theme revision, lines 45-141: Python start-up and the copy request
GenerateCopy ==
    /\ pc = "copy"
    /\ IF ~IsInt(sh.INIT_SPEED)
       THEN /\ Exit(1, {"ValueError"})
            /\ UNCHANGED <<sh, api>>
       ELSE /\ pc' = "tlogo"
            /\ UNCHANGED <<exitCode>>
            /\ IF ~key
               THEN /\ sh' = [sh EXCEPT !.py = ThemeLocals(sh)]
                    /\ UNCHANGED <<api, stdout>>
               ELSE \/ \E o \in CopyFailures :
                          /\ sh' = [sh EXCEPT !.py = ThemeLocals(sh)]
                          /\ api' = [api EXCEPT !.copy = o, !.sent = Append(@, "copy")]
                          /\ stdout' = stdout \cup {"[warn] copy"}
                    \/ \E c \in CopyColorAnswers :
                          /\ sh' = [sh EXCEPT !.py =
                                      [ThemeLocals(sh) EXCEPT !.colors =
                                          MergeColors(DefaultColors, c)]]
                          /\ api' = [api EXCEPT !.copy = "ok", !.sent = Append(@, "copy")]
                          /\ UNCHANGED stdout
    /\ UNCHANGED <<fs, runNo, script, argv, key, todo, fsStart, prev>>
    /\ UNCHANGED <<paletteVars, schedVars, clientVars>>

\* theme revision, lines 153-160
GenerateThemeLogo ==
    /\ pc = "tlogo"
    /\ IF key
       THEN \E o \in ApiOutcomes :
               /\ fs' = GenAsset(fs, LogoPath, o, GeneratedLogo)
               /\ api' = [api EXCEPT !.logo = o, !.sent = Append(@, "logo")]
               /\ stdout' = stdout \cup {IF o = "ok" THEN "[ok] logo generated"
                                         ELSE "[warn] logo not generated"}
       ELSE /\ stdout' = stdout \cup {"[warn] logo not generated"}
            /\ UNCHANGED <<fs, api>>
    /\ pc' = "thero"
    /\ UNCHANGED <<runNo, script, argv, sh, key, todo, exitCode, fsStart, prev>>
    /\ UNCHANGED <<paletteVars, schedVars, clientVars>>

\* theme revision, lines 162-169
GenerateThemeHero ==
    /\ pc = "thero"
    /\ IF key
       THEN \E o \in ApiOutcomes :
               /\ fs' = GenAsset(fs, HeroPath, o, GeneratedHero)
               /\ api' = [api EXCEPT !.hero = o, !.sent = Append(@, "hero")]
               /\ stdout' = stdout \cup {IF o = "ok" THEN "[ok] hero image generated"
                                         ELSE "[warn] hero image not generated"}
       ELSE /\ stdout' = stdout \cup {"[warn] hero image not generated"}
            /\ UNCHANGED <<fs, api>>
    /\ pc' = "config"
    /\ UNCHANGED <<runNo, script, argv, sh, key, todo, exitCode, fsStart, prev>>
    /\ UNCHANGED <<paletteVars, schedVars, clientVars>>

\* theme revision, lines 171-188
WriteThemeConfig ==
    /\ pc = "config"
    /\ fs' = WriteFile(fs, ThemeConfigPath, ThemeConfigText(sh.py))
    /\ pc' = "finish"
    /\ stdout' = stdout \cup {"[ok] theme.config.js updated"}
    /\ UNCHANGED <<runNo, script, argv, sh, key, api, todo, exitCode, fsStart, prev>>
    /\ UNCHANGED <<paletteVars, schedVars, clientVars>>

\* the same command line is run again on the site directory as it is now
NextRun ==
    /\ pc = "done"
    /\ runNo < MaxRuns
    /\ runNo' = runNo + 1
    /\ prev' = << [fs |-> fs, exitCode |-> exitCode] >>
    /\ fsStart' = fs
    /\ pc' = "args"
    /\ sh' = EmptyEnv
    /\ api' = NoApi
    /\ todo' = << >>
    /\ exitCode' = -1
    /\ stdout' = {}
    /\ UNCHANGED <<fs, script, argv, key>>
    /\ UNCHANGED <<paletteVars, schedVars, clientVars>>

Next ==
    \/ ParseAndValidate
    \/ RunBootstrap
    \/ ComputePaletteAndNames
    \/ GenerateLogo
    \/ GenerateHero
    \/ CopyCanonicalAssets
    \/ CheckShells
    \/ MaterializePages
    \/ SubstituteFile
    \/ WritePolicyPages
    \/ PatchTemplate
    \/ PostProcess
    \/ GenerateCopy
    \/ GenerateThemeLogo
    \/ GenerateThemeHero
    \/ WriteThemeConfig
    \/ Finish
    \/ NextRun

Spec == Init /\ [][Next]_vars

(***************************************************************************)
(* The palette selection on its own, over every short topic.               *)
(***************************************************************************)
TopicAlphabet == {"w", "i", "n", "e", "v", "o", "W", "V", "x"}

TopicStrings == UNION {[1..n -> TopicAlphabet] : n \in 0..MaxTopicLen}

PipelineIdle ==
    /\ fs = << >>
    /\ fsStart = << >>
    /\ argv = << >>
    /\ script = "shell"
    /\ key = FALSE
    /\ pc = "idle"
    /\ runNo = 0
    /\ sh = EmptyEnv
    /\ api = NoApi
    /\ todo = << >>
    /\ exitCode = -1
    /\ stdout = {}
    /\ prev = << >>

InitPalette ==
    /\ PipelineIdle
    /\ Alone
    /\ ClientIdle
    /\ topicIn \in TopicStrings
    /\ paletteOut = << >>

\* lines 40-47 of init-blog.sh applied to topicIn
SelectPalette ==
    /\ paletteOut = << >>
    /\ paletteOut' = <<Palette(topicIn)>>
    /\ UNCHANGED topicIn
    /\ UNCHANGED <<pipelineVars, schedVars, clientVars>>

NextPalette == SelectPalette

SpecPalette == InitPalette /\ [][NextPalette]_vars

(***************************************************************************)
(* Two invocations of init-blog.sh (placeholder revision) on one site       *)
(* directory at the same time.  The scripts take no lock and share nothing  *)
(* but the directory: one invocation is on the CPU, the context of the      *)
(* other (its position, variables and pending walk) is saved in 'other',    *)
(* and the scheduler may switch between them after any step.                *)
(***************************************************************************)
OtherArgv ==
    <<Flag("--domain"), <<"b.example">>, Flag("--brand"), <<"B">>,
      Flag("--topic"), <<"x">> >>

\* what belongs to one process: everything but the directory
Context ==
    [pc |-> pc, argv |-> argv, sh |-> sh, api |-> api, todo |-> todo,
     exitCode |-> exitCode, stdout |-> stdout]

InitConcurrent ==
    /\ InitRun(BaseSite, BaseArgv, "shell", FALSE)
    /\ ClientIdle
    /\ other = << [pc |-> "args", argv |-> OtherArgv, sh |-> EmptyEnv, api |-> NoApi,
                   todo |-> << >>, exitCode |-> -1, stdout |-> {}] >>

\* a directory lock held from the first to the last step of an invocation
SwitchLocked ==
    /\ other # << >>
    /\ other[1].pc # "done"
    /\ pc \in {"args", "done"}
    /\ pc' = other[1].pc
    /\ argv' = other[1].argv
    /\ sh' = other[1].sh
    /\ api' = other[1].api
    /\ todo' = other[1].todo
    /\ exitCode' = other[1].exitCode
    /\ stdout' = other[1].stdout
    /\ other' = <<Context>>
    /\ UNCHANGED <<fs, runNo, script, key, fsStart, prev>>
    /\ UNCHANGED <<paletteVars, clientVars>>

\* the scheduler takes the running invocation off the CPU and resumes the
\* other one, wherever the running one is: nothing in the scripts prevents it
Switch ==
    /\ other # << >>
    /\ other[1].pc # "done"
    /\ pc' = other[1].pc
    /\ argv' = other[1].argv
    /\ sh' = other[1].sh
    /\ api' = other[1].api
    /\ todo' = other[1].todo
    /\ exitCode' = other[1].exitCode
    /\ stdout' = other[1].stdout
    /\ other' = <<Context>>
    /\ UNCHANGED <<fs, runNo, script, key, fsStart, prev>>
    /\ UNCHANGED <<paletteVars, clientVars>>

\* the machine of this scenario has no ImageMagick: 'command -v convert' fails
PostProcessNoConvert == PostProcess /\ api'.convert = "absent"

NextConcurrent ==
    \/ ParseAndValidate
    \/ RunBootstrap
    \/ ComputePaletteAndNames
    \/ GenerateLogo
    \/ GenerateHero
    \/ CopyCanonicalAssets
    \/ CheckShells
    \/ MaterializePages
    \/ SubstituteFile
    \/ WritePolicyPages
    \/ PatchTemplate
    \/ PostProcessNoConvert
    \/ Finish
    \/ Switch

SpecConcurrent == InitConcurrent /\ [][NextConcurrent]_vars

(***************************************************************************)
(* An invocation of init-blog.sh that dies inside the substitution loop:    *)
(* the embedded Python raises on a read or a write (set -e then ends the    *)
(* script with its status) or the process is killed.  The script installs   *)
(* no trap and keeps no copy of the files it rewrites.                      *)
(***************************************************************************)
\* an exit handler that puts back the files as they were when the run began
CrashRestoring ==
    /\ pc = "pass"
    /\ \E code \in {1, 137} :
          /\ pc' = "done"
          /\ exitCode' = code
    /\ fs' = fsStart
    /\ UNCHANGED <<runNo, script, argv, sh, key, api, todo, stdout, fsStart, prev>>
    /\ UNCHANGED <<paletteVars, schedVars, clientVars>>

\* lines 154-160 interrupted between two files of the walk, or before the
\* first: the files already written stay as written, the walk is abandoned
Crash ==
    /\ pc = "pass"
    /\ \E code \in {1, 137} :
          /\ pc' = "done"
          /\ exitCode' = code
    /\ UNCHANGED <<fs, runNo, script, argv, sh, key, api, todo, stdout, fsStart, prev>>
    /\ UNCHANGED <<paletteVars, schedVars, clientVars>>

InitCrash ==
    /\ Alone
    /\ ClientIdle
    /\ \E f \in SiteVariants(<<"Acme">>), k \in BOOLEAN :
          InitRun(f, BaseArgv, "shell", k)

NextCrash ==
    \/ ParseAndValidate
    \/ RunBootstrap
    \/ ComputePaletteAndNames
    \/ GenerateLogo
    \/ GenerateHero
    \/ CopyCanonicalAssets
    \/ CheckShells
    \/ MaterializePages
    \/ SubstituteFile
    \/ Crash
    \/ WritePolicyPages
    \/ PatchTemplate
    \/ PostProcess
    \/ Finish
    \/ NextRun

SpecCrash == InitCrash /\ [][NextCrash]_vars

(***************************************************************************)
(* i18n-switcher.js: locale of a path, language switcher, auto redirect.    *)
(* A path is a sequence of symbols: "/", a locale code, or "x" for any      *)
(* other run of characters, so <<"/", "ru", "x">> stands for "/rux".        *)
(***************************************************************************)
MaxPathLen == 4

\* redirects in a row after which the model stops following them
MaxHops == 3

supported == <<"en", "ru", "es", "de", "fr">>

PathSyms == {"/", "ru", "de", "x"}

RECURSIVE SeqsUpTo(_, _)
\* the sequences over S of length at most n
SeqsUpTo(S, n) ==
    IF n = 0 THEN {<< >>}
    ELSE LET shorter == SeqsUpTo(S, n - 1)
         IN  shorter \cup {Append(q, c) : q \in shorter, c \in S}

\* location.pathname always starts with "/"
Pathnames == {q \in SeqsUpTo(PathSyms, MaxPathLen) : q # << >> /\ q[1] = "/"}

\* path === "/" + l || path.indexOf("/" + l + "/") === 0
HasLangPrefix(path, l) == path = <<"/", l>> \/ StartsWith(path, <<"/", l, "/">>)

RECURSIVE currentLangFrom(_, _)
currentLangFrom(path, i) ==
    IF i > Len(supported) THEN "en"
    ELSE IF HasLangPrefix(path, supported[i]) THEN supported[i]
    ELSE currentLangFrom(path, i + 1)

\* the loop starts at index 1 of the array, that is after "en"
currentLang(path) == currentLangFrom(path, 2)

RECURSIVE stripPrefixFrom(_, _)
stripPrefixFrom(path, i) ==
    IF i > Len(supported) THEN (IF path = << >> THEN <<"/">> ELSE path)
    ELSE IF path = <<"/", supported[i]>> THEN <<"/">>
    ELSE IF StartsWith(path, <<"/", supported[i], "/">>)
         THEN LET rest == SubSeq(path, 3, Len(path))
              IN  IF rest = << >> THEN <<"/">> ELSE rest
    ELSE stripPrefixFrom(path, i + 1)

stripPrefix(path) == stripPrefixFrom(path, 2)

toLangPath(lang, path) ==
    LET stripped == stripPrefix(IF path = << >> THEN <<"/">> ELSE path)
        core == IF stripped[1] # "/" THEN <<"/">> \o stripped ELSE stripped
    IN  IF lang = "en" THEN core
        ELSE IF core = <<"/">> THEN <<"/", lang, "/">>
        ELSE <<"/", lang>> \o core

\* values of navigator.language: absent, or a tag whose first symbol is the
\* primary subtag as the browser spells it
Languages ==
    { << >>, <<"en", "-US">>, <<"ru">>, <<"RU", "-ru">>, <<"es", "-MX">>,
      <<"de", "-AT">>, <<"fr">>, <<"it">> }

LowerTag(c) == IF c = "RU" THEN "ru" ELSE c

\* (navigator.language || "en").toLowerCase() and the startsWith chain
preferredLang(b) ==
    LET tag == IF b = << >> THEN "en" ELSE LowerTag(b[1])
    IN  IF tag \in {"ru", "es", "de", "fr"} THEN tag ELSE "en"

\* the redirect decision without the test of the stored choice
RedirectTargetNoChoice ==
    IF navigator.bot THEN << >>
    ELSE IF currentLang(location) # "en" THEN << >>
    ELSE IF preferredLang(navigator.language) = "en" THEN << >>
    ELSE LET np == toLangPath(preferredLang(navigator.language), location)
         IN  IF np # location THEN np ELSE << >>

\* the page the script would replace the current one with, << >> if none
RedirectTarget ==
    IF navigator.bot THEN << >>
    ELSE IF localStorage.site_lang_selected = "1" THEN << >>
    ELSE IF currentLang(location) # "en" THEN << >>
    ELSE IF preferredLang(navigator.language) = "en" THEN << >>
    ELSE LET np == toLangPath(preferredLang(navigator.language), location)
         IN  IF np # location THEN np ELSE << >>

\* a locale test that accepts any path beginning with "/" and a locale code
layoutLocaleLoose(pathname) ==
    LET path == IF pathname = << >> THEN <<"/">> ELSE pathname
    IN  IF Len(path) >= 2 /\ path[1] = "/" /\ path[2] \in {"ru", "es", "de", "fr"}
        THEN path[2] ELSE "en"

\* shared/layout.js lines 2-4: path.match(/^\/(ru|es|de|fr)(\/|$)/)
layoutLocale(pathname) ==
    LET path == IF pathname = << >> THEN <<"/">> ELSE pathname
    IN  IF /\ Len(path) >= 2 /\ path[1] = "/" /\ path[2] \in {"ru", "es", "de", "fr"}
           /\ (Len(path) = 2 \/ path[3] = "/")
        THEN path[2] ELSE "en"

InitBrowser ==
    /\ PipelineIdle
    /\ PaletteIdle
    /\ Alone
    /\ ChatIdle
    /\ ImgIdle
    /\ GenIdle
    /\ location \in Pathnames
    /\ navigator \in [language : Languages, bot : BOOLEAN]
    /\ localStorage = [site_lang_selected |-> "null"]
    /\ sel = "none"
    /\ page = "load"
    /\ hops = 0

\* an auto redirect that sends every visitor without stored choice to the
\* preferred language, whatever the locale of the current path
autoRedirectAlways ==
    /\ page = "load"
    /\ LET pl == preferredLang(navigator.language)
       IN  IF ~navigator.bot /\ localStorage.site_lang_selected # "1"
              /\ pl # "en" /\ hops < MaxHops
           THEN /\ location' = <<"/", pl>> \o location
                /\ hops' = hops + 1
                /\ UNCHANGED page
           ELSE /\ page' = "ready"
                /\ UNCHANGED <<location, hops>>
    /\ UNCHANGED <<navigator, localStorage, sel>>
    /\ UNCHANGED <<pipelineVars, paletteVars, schedVars, chatVars, imgVars, genVars>>

\* lines 44-55 and 98-103: the script runs on page load; location.replace
\* loads the new page, whose script runs in turn
autoRedirect ==
    /\ page = "load"
    /\ IF RedirectTarget # << >> /\ hops < MaxHops
       THEN /\ location' = RedirectTarget
            /\ hops' = hops + 1
            /\ UNCHANGED page
       ELSE /\ page' = "ready"
            /\ UNCHANGED <<location, hops>>
    /\ UNCHANGED <<navigator, localStorage, sel>>
    /\ UNCHANGED <<pipelineVars, paletteVars, schedVars, chatVars, imgVars, genVars>>

\* lines 88-92: the user picks a language; setItem may throw (storage
\* disabled or full), the exception is swallowed
ChangeLanguage ==
    /\ page = "ready"
    /\ \E l \in Range(supported), stored \in BOOLEAN :
          /\ sel' = l
          /\ localStorage' = IF stored THEN [site_lang_selected |-> "1"]
                             ELSE localStorage
          /\ location' = toLangPath(l, location)
    /\ page' = "load"
    /\ hops' = 0
    /\ UNCHANGED navigator
    /\ UNCHANGED <<pipelineVars, paletteVars, schedVars, chatVars, imgVars, genVars>>

\* the user opens another page of the site
Navigate ==
    /\ page = "ready"
    /\ location' \in Pathnames
    /\ page' = "load"
    /\ hops' = 0
    /\ sel' = "none"
    /\ UNCHANGED <<navigator, localStorage>>
    /\ UNCHANGED <<pipelineVars, paletteVars, schedVars, chatVars, imgVars, genVars>>

NextBrowser ==
    \/ autoRedirect
    \/ ChangeLanguage
    \/ Navigate

SpecBrowser == InitBrowser /\ [][NextBrowser]_vars

(***************************************************************************)
(* shared/layout.js: the chat widget.  The history is the sequence of the   *)
(* roles of its entries, #anna-messages the sequence of the kinds of its    *)
(* child elements.  sendMessage is an async function: it runs up to each    *)
(* await, and other handlers (a second sendMessage) run in between.         *)
(***************************************************************************)
\* sendMessage calls a page makes before the model stops sending
MaxSends == 3

\* how a fetch ends: response.ok, a response that is not ok, a rejection
FetchOutcomes == {"ok", "notok", "throw"}

\* removeTyping(): the first .typing-msg element, if any, is removed
RECURSIVE removeTyping(_)
removeTyping(m) ==
    IF m = << >> THEN m
    ELSE IF Head(m) = "typing" THEN Tail(m)
    ELSE <<Head(m)>> \o removeTyping(Tail(m))

Count(q, x) == Cardinality({i \in 1..Len(q) : q[i] = x})

\* lines 510 and 759-761: the page loads with a stored history or none
InitChat ==
    /\ PipelineIdle
    /\ PaletteIdle
    /\ Alone
    /\ BrowserIdle
    /\ ImgIdle
    /\ GenIdle
    /\ chatStore \in {<< >>, <<"assistant", "user", "assistant">>}
    /\ history = chatStore
    /\ msgContainer = chatStore
    /\ pending = [fetch |-> 0, stream |-> 0]

\* lines 643-654 and 661-665: the window is opened with an empty history
startChat ==
    /\ history = << >>
    /\ history' = <<"assistant">>
    /\ msgContainer' = Append(msgContainer, "assistant")
    /\ UNCHANGED <<pending, chatStore>>
    /\ UNCHANGED <<pipelineVars, paletteVars, schedVars, i18nVars, imgVars, genVars>>

\* lines 681-698: sendMessage up to 'await fetch'; with an empty input it
\* returns at once.  The input is inside the window, which has been opened
\* (and the greeting pushed) before anything can be sent.
sendMessage ==
    /\ history # << >>
    /\ Count(msgContainer, "user") < MaxSends
    /\ \E text \in {<< >>, <<"hi">>} :
          IF text = << >>
          THEN UNCHANGED <<history, msgContainer, pending>>
          ELSE /\ history' = Append(history, "user")
               /\ msgContainer' = msgContainer \o <<"user", "typing">>
               /\ pending' = [pending EXCEPT !.fetch = @ + 1]
    /\ UNCHANGED chatStore
    /\ UNCHANGED <<pipelineVars, paletteVars, schedVars, i18nVars, imgVars, genVars>>

\* lines 703-712 and 749-752: the fetch of one waiting call settles
FetchSettles ==
    /\ pending.fetch > 0
    /\ \E o \in FetchOutcomes :
          CASE o = "ok" ->
                 /\ msgContainer' = Append(removeTyping(msgContainer), "assistant")
                 /\ pending' = [fetch |-> pending.fetch - 1,
                                stream |-> pending.stream + 1]
            [] o = "notok" ->
                 /\ msgContainer' = removeTyping(msgContainer)
                 /\ pending' = [pending EXCEPT !.fetch = @ - 1]
            [] o = "throw" ->
                 /\ msgContainer' = Append(msgContainer, "assistant")
                 /\ pending' = [pending EXCEPT !.fetch = @ - 1]
    /\ UNCHANGED <<history, chatStore>>
    /\ UNCHANGED <<pipelineVars, paletteVars, schedVars, i18nVars, imgVars, genVars>>

\* lines 714-752: the response stream of one call ends, or reading it throws
StreamSettles ==
    /\ pending.stream > 0
    /\ pending' = [pending EXCEPT !.stream = @ - 1]
    /\ \E done \in BOOLEAN :
          IF done
          THEN /\ history' = Append(history, "assistant")
               /\ chatStore' = history'
               /\ UNCHANGED msgContainer
          ELSE /\ msgContainer' = Append(msgContainer, "assistant")
               /\ UNCHANGED <<history, chatStore>>
    /\ UNCHANGED <<pipelineVars, paletteVars, schedVars, i18nVars, imgVars, genVars>>

\* the page is left and loaded again: lines 510 and 759-761
Reload ==
    /\ history' = chatStore
    /\ msgContainer' = chatStore
    /\ pending' = [fetch |-> 0, stream |-> 0]
    /\ UNCHANGED chatStore
    /\ UNCHANGED <<pipelineVars, paletteVars, schedVars, i18nVars, imgVars, genVars>>

NextChat ==
    \/ startChat
    \/ sendMessage
    \/ FetchSettles
    \/ StreamSettles
    \/ Reload

SpecChat == InitChat /\ [][NextChat]_vars

(***************************************************************************)
(* The recursive image optimizer (optimize-images, sharp).  A file path is  *)
(* the sequence of its directory names followed by the pieces of the file   *)
(* name, the last piece being the extension.  The content of a file is      *)
(* "orig" (as found), "opt" (completely written re-encoding), "webp"        *)
(* (completely written WebP companion) or "partial" (a write that failed).  *)
(***************************************************************************)
TARGET_DIRECTORIES ==
    << <<"blog">>, <<"gallery_images">>, <<"assets", "generated", "pairings">> >>

File(name) == [name |-> name, isDirectory |-> FALSE]
Dir(name) == [name |-> name, isDirectory |-> TRUE]

\* what readdir yields for the directories of the site, in its order; a
\* directory that does not exist makes readdir throw, and walk then returns
\* the empty list as well
ImgEntries(dir) ==
    CASE dir = <<"blog">> ->
            << File(<<"a", ".png">>), File(<<"a", ".webp">>), Dir(<<"img">>),
               Dir(<<"backups">>), File(<<".thumb", ".png">>),
               File(<<"b", ".JPG">>), File(<<"c", ".bak", ".png">>),
               File(<<"n", ".txt">>) >>
      [] dir = <<"blog", "img">> -> << File(<<"e", ".webp">>) >>
      [] dir = <<"blog", "backups">> -> << File(<<"old", ".png">>) >>
      [] dir = <<"gallery_images">> -> << File(<<"g", ".jpeg">>) >>
      [] OTHER -> << >>

\* every file of the tree, and the images among them that may be large
AllImgFiles ==
    { <<"blog", "a", ".png">>, <<"blog", "a", ".webp">>, <<"blog", ".thumb", ".png">>,
      <<"blog", "b", ".JPG">>, <<"blog", "c", ".bak", ".png">>, <<"blog", "n", ".txt">>,
      <<"blog", "img", "e", ".webp">>, <<"blog", "backups", "old", ".png">>,
      <<"gallery_images", "g", ".jpeg">> }

SkippedNames == {"node_modules", ".git", ".venv", "backups"}

\* e.name.startsWith(".")
DotName(name) == name[1] \in {".thumb", ".git", ".venv"}

RECURSIVE walk(_, _)
RECURSIVE walkEntries(_, _, _)
\* lines 75-84: the loop over the entries of one directory
walkEntries(f, dir, entries) ==
    IF entries = << >> THEN << >>
    ELSE LET e == Head(entries)
             full == dir \o e.name
             rest == walkEntries(f, dir, Tail(entries))
         IN  IF DotName(e.name) \/ e.name[1] \in SkippedNames THEN rest
             ELSE IF e.isDirectory THEN walk(f, full) \o rest
             ELSE IF full \in DOMAIN f THEN <<full>> \o rest
             ELSE rest

\* lines 66-86
walk(f, dir) == walkEntries(f, dir, ImgEntries(dir))

LowerExt(e) == IF e = ".JPG" THEN ".jpg" ELSE e

\* path.extname(filePath).toLowerCase()
ExtName(filePath) == LowerExt(filePath[Len(filePath)])

ImageExts == {".jpg", ".jpeg", ".png", ".webp"}

\* filePath.replace(/\.(png|jpg|jpeg|webp)$/i, "") + ".webp"
WebpPath(filePath) == SubSeq(filePath, 1, Len(filePath) - 1) \o <<".webp">>

TmpPath(filePath) == filePath \o <<".tmp">>

\* lines 55: ext !== ".webp" || !(await exists(webpPath)), evaluated after the
\* rename, when filePath exists
NeedWebp(filePath) == ExtName(filePath) # ".webp"

\* the awaits of optimizeOne that can reject, in order, and "ok"
OptimizeSteps == <<"stat", "encode", "rename", "webpread", "webpencode", "ok">>

\* how a call on a large image can end
OptimizeOutcomes(filePath) ==
    IF NeedWebp(filePath) THEN Range(OptimizeSteps)
    ELSE {"stat", "encode", "rename", "ok"}

Put(f, p, c) == [q \in DOMAIN f \cup {p} |-> IF q = p THEN c ELSE f[q]]

\* an optimizeOne that encodes straight into the file
optimizeOneInPlace(f, filePath, o) ==
    CASE o = "stat" -> f
      [] o = "encode" -> Put(f, filePath, "partial")
      [] o = "rename" -> Put(f, filePath, "opt")
      [] o = "webpread" -> Put(f, filePath, "opt")
      [] o = "webpencode" ->
            Put(Put(f, filePath, "opt"), WebpPath(filePath), "partial")
      [] o = "ok" ->
            IF NeedWebp(filePath)
            THEN Put(Put(f, filePath, "opt"), WebpPath(filePath), "webp")
            ELSE Put(f, filePath, "opt")

\* lines 34-63: the files after optimizeOne on a large image failed at step o
\* or went through ("ok")
optimizeOne(f, filePath, o) ==
    CASE o = "stat" -> f
      [] o = "encode" -> Put(f, TmpPath(filePath), "partial")
      [] o = "rename" -> Put(f, TmpPath(filePath), "opt")
      [] o = "webpread" -> Put(f, filePath, "opt")
      [] o = "webpencode" ->
            Put(Put(f, filePath, "opt"), WebpPath(filePath), "partial")
      [] o = "ok" ->
            IF NeedWebp(filePath)
            THEN Put(Put(f, filePath, "opt"), WebpPath(filePath), "webp")
            ELSE Put(f, filePath, "opt")

InitOptimizer ==
    /\ PipelineIdle
    /\ PaletteIdle
    /\ Alone
    /\ BrowserIdle
    /\ ChatIdle
    /\ GenIdle
    /\ \E present \in {AllImgFiles, AllImgFiles \ {<<"blog", "a", ".webp">>}} :
          /\ imgFs = [p \in present |-> "orig"]
          /\ imgBig \in SUBSET {p \in present : ExtName(p) \in ImageExts}
    /\ imgDir = 0
    /\ imgQueue = << >>
    /\ imgCalls = << >>
    /\ imgLog = << >>

\* lines 89-91: the next target directory is walked
WalkTarget ==
    /\ imgQueue = << >>
    /\ imgDir < Len(TARGET_DIRECTORIES)
    /\ imgDir' = imgDir + 1
    /\ imgQueue' = walk(imgFs, TARGET_DIRECTORIES[imgDir + 1])
    /\ UNCHANGED <<imgFs, imgBig, imgCalls, imgLog>>
    /\ UNCHANGED <<pipelineVars, paletteVars, schedVars, i18nVars, chatVars, genVars>>

\* lines 92-98 with 27-64: one iteration of the loop over the files.  A file
\* written earlier in this run has a size the model does not know.
OptimizeNext ==
    /\ imgQueue # << >>
    /\ LET filePath == Head(imgQueue)
       IN  /\ imgQueue' = Tail(imgQueue)
           /\ imgCalls' = Append(imgCalls, filePath)
           /\ IF ExtName(filePath) \notin ImageExts
              THEN UNCHANGED <<imgFs, imgLog>>
              ELSE \E large \in IF imgFs[filePath] = "orig" THEN {filePath \in imgBig}
                                ELSE BOOLEAN :
                     IF ~large \/ ".bak" \in Range(filePath)
                     THEN \E failed \in BOOLEAN :
                             /\ imgLog' = IF failed
                                          THEN Append(imgLog, [file |-> filePath,
                                                               step |-> "stat"])
                                          ELSE imgLog
                             /\ UNCHANGED imgFs
                     ELSE \E o \in OptimizeOutcomes(filePath) :
                             /\ imgFs' = optimizeOne(imgFs, filePath, o)
                             /\ imgLog' = IF o = "ok" THEN imgLog
                                          ELSE Append(imgLog, [file |-> filePath,
                                                               step |-> o])
    /\ UNCHANGED <<imgBig, imgDir>>
    /\ UNCHANGED <<pipelineVars, paletteVars, schedVars, i18nVars, chatVars, genVars>>

NextOptimizer ==
    \/ WalkTarget
    \/ OptimizeNext

SpecOptimizer == InitOptimizer /\ [][NextOptimizer]_vars

(***************************************************************************)
(* scripts/generate-video-pages.mjs.  sitemap.xml is the sequence of its    *)
(* pieces: the opening and the closing tag of urlset and one piece per url  *)
(* block, which carries the location of the block.                          *)
(***************************************************************************)
MaxGenRuns == 2

\* longest videos array of the API response
MaxVideos == 2

UrlsetOpen == <<"<urlset>">>
UrlsetClose == <<"</urlset>">>
HomeUrl == <<"url", "https://myugc.studio/">>
LegacyUrl == <<"url", "https://myugc.studio/v.html", "?id=1">>

\* encodeURIComponent on the ids of the model
EncodeURIComponent(id) == IF id = "a b" THEN "a%20b" ELSE id

\* lines 158-164: the url block of a video page
WatchUrl(id) == <<"url", "https://myugc.studio/watch/", EncodeURIComponent(id), ".html">>

\* an id or url that is missing or blank is ""
VideoRecords == [id : {"", "a", "a b"}, url : {"", "/m.mp4"}]

ApiResponses == SeqsUpTo(VideoRecords, MaxVideos)

Sitemaps ==
    { <<UrlsetOpen, HomeUrl, UrlsetClose>>,
      <<UrlsetOpen, HomeUrl, LegacyUrl, WatchUrl("b"), UrlsetClose>>,
      <<UrlsetOpen, HomeUrl>> }

\* lines 143-148: the videos a page is written for
PageVideos(vs) == SelectSeq(vs, LAMBDA v : v.id # "" /\ v.url # "")

RECURSIVE sitemapEntries(_)
sitemapEntries(vs) ==
    IF vs = << >> THEN << >> ELSE <<WatchUrl(Head(vs).id)>> \o sitemapEntries(Tail(vs))

\* line 174: the url blocks of the v.html pages are removed
DropLegacy(sm) ==
    SelectSeq(sm, LAMBDA b : ~(Len(b) >= 2 /\ b[2] = "https://myugc.studio/v.html"))

RECURSIVE InsertBeforeClose(_, _)
\* line 177: String.replace on the first "</urlset>"
InsertBeforeClose(sm, entries) ==
    IF sm = << >> THEN << >>
    ELSE IF Head(sm) = UrlsetClose THEN entries \o sm
    ELSE <<Head(sm)>> \o InsertBeforeClose(Tail(sm), entries)

\* lines 173-177
RewriteSitemap(sm, vs) == InsertBeforeClose(DropLegacy(sm), sitemapEntries(vs))

InitGenerator ==
    /\ PipelineIdle
    /\ PaletteIdle
    /\ Alone
    /\ BrowserIdle
    /\ ChatIdle
    /\ ImgIdle
    /\ videos \in ApiResponses
    /\ sitemap \in Sitemaps
    /\ watchDir = {}
    /\ genRuns = 0
    /\ genOut = << >>

\* lines 130-187: one run of main against the same response; the request
\* can fail, and a sitemap without closing tag ends the run after the pages
\* were written
RunGenerator ==
    /\ genRuns < MaxGenRuns
    /\ genRuns' = genRuns + 1
    /\ \E fetched \in BOOLEAN :
          IF ~fetched
          THEN /\ genOut' = <<[written |-> 0, added |-> 0, status |-> 1]>>
               /\ UNCHANGED <<sitemap, watchDir>>
          ELSE LET pages == PageVideos(videos)
               IN  /\ watchDir' = watchDir \cup {<<v.id, ".html">> : v \in Range(pages)}
                                           \cup {<<"index.html">>}
                   /\ IF UrlsetClose \in Range(sitemap)
                      THEN /\ sitemap' = RewriteSitemap(sitemap, pages)
                           /\ genOut' = <<[written |-> Len(pages),
                                           added |-> Len(sitemapEntries(pages)),
                                           status |-> 0]>>
                      ELSE /\ UNCHANGED sitemap
                           /\ genOut' = <<[written |-> Len(pages), added |-> 0,
                                           status |-> 1]>>
    /\ UNCHANGED videos
    /\ UNCHANGED <<pipelineVars, paletteVars, schedVars, i18nVars, chatVars, imgVars>>

NextGenerator == RunGenerator

SpecGenerator == InitGenerator /\ [][NextGenerator]_vars

(***************************************************************************)
(* Properties.                                                             *)
(***************************************************************************)
PlaceholderTokens ==
    {"__BRAND__", "__DOMAIN__", "__LOGO_FILE__", "__HERO_FILE__", "__BG0__",
     "__BG1__", "__BG2__", "__ACCENT__", "__ACCENT_HOVER__", "__RAD1__",
     "__RAD2__", "__RAD3__", "__ANIM_SPEED__", "__HERO_TITLE__",
     "__HERO_SUBTITLE__", "__SUBSCRIBE_EMAIL__"}

HasPlaceholder(c) == \E i \in 1..Len(c) : c[i] \in PlaceholderTokens

HtmlFiles(f) == (DOMAIN f) \cap Range(HtmlOrder)

\* the file has the same content as when the invocation started
Untouched(p) == Exists(fsStart, p) => (Exists(fs, p) /\ fs[p] = fsStart[p])

Succeeded == pc = "done" /\ exitCode = 0

\* C1: after a successful run of the placeholder revision no HTML file under
\* the site root contains a placeholder token, whatever the argument values.
C1_NoPlaceholderLeft ==
    (Succeeded /\ script = "shell")
        => \A p \in HtmlFiles(fs) : ~HasPlaceholder(fs[p])

\* the asset provisioning step of the invocation has just finished
Provisioned ==
    \/ script = "shell" /\ pc = "shells"
    \/ script = "theme" /\ pc = "config"

\* C2: without credential the provisioning step leaves an existing logo.png
\* and hero_ai.jpg as they were, whatever else is in the site directory.
C2_CanonicalKeptWithoutKey ==
    (Provisioned /\ ~key) => (Untouched(LogoPath) /\ Untouched(HeroPath))

\* C3: the two shell templates have the same content after a run as before.
C3_ShellsAreInputsOnly ==
    (Succeeded /\ script = "shell")
        => (Untouched(HomeShellPath) /\ Untouched(BlogShellPath))

\* C4: when a shell template is missing the run ends with a non-zero status
\* and the site directory is as it was when the run started.
C4_MissingShellNothingWritten ==
    (/\ pc = "done"
     /\ script = "shell"
     /\ sh.INIT_DOMAIN # << >>
     /\ ~(Exists(fsStart, HomeShellPath) /\ Exists(fsStart, BlogShellPath)))
        => (exitCode # 0 /\ fs = fsStart)

\* C5: a second successful run with the same arguments and no credential
\* leaves every HTML file exactly as the first run left it.
C5_SecondRunIdentical ==
    (Succeeded /\ ~key /\ prev # << >>)
        => (prev[1].exitCode = 0
              => /\ HtmlFiles(fs) = HtmlFiles(prev[1].fs)
                 /\ \A p \in HtmlFiles(fs) : fs[p] = prev[1].fs[p])

\* topic contains the word, letter case ignored
HasWordAnyCase(topic, word) ==
    \E i \in 1..(Len(topic) - Len(word) + 1) :
        \A j \in 1..Len(word) :
            topic[i + j - 1] \in {word[j]} \cup
                (IF word[j] = "w" THEN {"W"} ELSE IF word[j] = "v" THEN {"V"} ELSE {})

\* C6 (as stated): the wine palette is returned exactly for the topics that
\* contain "wine" in any letter case, the default palette otherwise.
C6_WineOnly ==
    paletteOut # << >>
        => /\ paletteOut[1] \in {WinePalette, DefaultPalette}
           /\ paletteOut[1] = WinePalette <=> HasWordAnyCase(topicIn, <<"w", "i", "n", "e">>)

\* C6 (amended): the wine palette is returned exactly for the topics that
\* contain "wine" or "vin" in any letter case, the default palette otherwise.
C6_WineOrVin ==
    paletteOut # << >>
        => /\ paletteOut[1] \in {WinePalette, DefaultPalette}
           /\ paletteOut[1] = WinePalette <=>
                 \/ HasWordAnyCase(topicIn, <<"w", "i", "n", "e">>)
                 \/ HasWordAnyCase(topicIn, <<"v", "i", "n">>)

C6_Witness ==
    /\ topicIn = <<"V", "i", "n">>
    /\ paletteOut = <<WinePalette>>

\* the numerals of the allowed animation speeds
ClampedNumerals == {ToString(n) : n \in MinSpeedSec..MaxSpeedSec}

\* the symbol that follows the first occurrence of marker in c
SymbolAfter(c, marker) ==
    c[(CHOOSE i \in 1..Len(c) : c[i] = marker /\ \A j \in 1..(i - 1) : c[j] # marker) + 1]

\* C7: the animation speed written to the output lies in 8..60, both as the
\* __ANIM_SPEED__ substitution and as animationSpeedSec of theme.config.js.
C7_SpeedClamped ==
    Succeeded
        => IF script = "shell"
           THEN SymbolAfter(fs[IndexPath], "anim:") \in ClampedNumerals
           ELSE SymbolAfter(fs[ThemeConfigPath], SpeedKey) \in ClampedNumerals

\* the placeholder revision is past its provisioning step
PastProvisioning ==
    /\ script = "shell"
    /\ \/ pc \in {"shells", "pages", "pass", "policy", "patch", "post", "finish"}
       \/ pc = "done" /\ sh.INIT_LOGO_FILE # << >>

\* both files exist with the same bytes, or neither exists
Paired(f, a, b) ==
    (Exists(f, a) \/ Exists(f, b)) => (Exists(f, a) /\ Exists(f, b) /\ f[a] = f[b])

\* C8: after asset provisioning the brand-specific and the canonical file
\* of the logo, and of the hero image, both exist with identical bytes as
\* soon as one of them exists.
C8_CanonicalPairs ==
    PastProvisioning
        => /\ Paired(fs, sh.INIT_LOGO_FILE, LogoPath)
           /\ Paired(fs, sh.INIT_HERO_FILE, HeroPath)

C8_Witness ==
    /\ script = "shell"
    /\ pc = "shells"
    /\ Exists(fsStart, LogoPath)
    /\ Exists(fsStart, sh.INIT_LOGO_FILE)
    /\ fsStart[LogoPath] # fsStart[sh.INIT_LOGO_FILE]
    /\ ~Exists(fsStart, HeroPath)
    /\ api.hero = "ok"
    /\ fs[LogoPath] = fs[sh.INIT_LOGO_FILE]
    /\ fs[HeroPath] = GeneratedHero

\* the pages of the site exist and each policy page names the domain
Materialized ==
    /\ Exists(fs, IndexPath)
    /\ \A p \in Range(BlogPages) : Exists(fs, p)
    /\ \A p \in Range(PolicyPages) :
          Exists(fs, p) /\ Contains(fs[p], <<"mailto:info@">> \o sh.INIT_DOMAIN)

LacksRequired(a) ==
    \E f \in {"--domain", "--brand", "--topic"} :
        ~\E i \in 1..(Len(a) - 1) : i % 2 = 1 /\ a[i] = <<f>> /\ a[i + 1] # << >>

\* C10: with a required value missing or empty the script prints the usage
\* text, ends with a non-zero status and leaves the site directory alone.
C10_UsageOnMissingArgument ==
    (pc = "done" /\ LacksRequired(argv))
        => ("Usage" \in stdout /\ exitCode # 0 /\ fs = fsStart)

\* C11: a command line that gives the three required flags and any subset of
\* --speed, --subscribe-email and --animation passes the argument stage.
C11_AllFlagsAccepted ==
    (pc = "done" /\ argv \in ValidArgvs) => sh.INIT_DOMAIN # << >>

\* the bootstrap step of the invocation has just finished
Bootstrapped == pc \in {"palette", "copy"}

\* the text with every bootstrap token replaced by the literal value
LiteralBootstrap(c, domain, brand) ==
    replace(replace(replace(c, OldDomain, domain), OldBrand, brand), OldBrandCaps, brand)

\* C12: the token replacement of the bootstrap leaves every file without a
\* token as it was, and in a file with tokens replaces each occurrence by the
\* literal domain or brand.  (The date reset of sitemap.xml, lines 339-343, is
\* a step of its own and sitemap.xml is left out here.)
C12_BootstrapFrame ==
    Bootstrapped
        => \A p \in (DOMAIN fsStart) \ {SitemapPath} :
              /\ Exists(fs, p)
              /\ fs[p] = IF p \in TextGlob /\ HasBootstrapToken(fsStart[p])
                         THEN LiteralBootstrap(fsStart[p], sh.INIT_DOMAIN, sh.INIT_BRAND)
                         ELSE fsStart[p]

\* the home page, the blog listing pages and the policy pages exist
PagesExist ==
    /\ Exists(fs, IndexPath)
    /\ \A p \in Range(BlogPages) \cup Range(PolicyPages) : Exists(fs, p)

\* C13 (as stated): after a successful run the pages, logo.png, hero_ai.jpg
\* and the brand-suffixed copy of each image exist in the site directory.
C13_LayoutAlways ==
    (Succeeded /\ script = "shell")
        => /\ PagesExist
           /\ Exists(fs, LogoPath) /\ Exists(fs, sh.INIT_LOGO_FILE)
           /\ Exists(fs, HeroPath) /\ Exists(fs, sh.INIT_HERO_FILE)

\* the image was generated in this run, or it or its brand copy was there before
HadImage(brandFile, canonical, outcome) ==
    Exists(fsStart, brandFile) \/ Exists(fsStart, canonical) \/ outcome = "ok"

\* C13 (amended): after a successful run the pages exist; logo.png and its
\* brand-suffixed copy exist exactly when the logo was generated in the run
\* or one of the two files was there before it, and likewise hero_ai.jpg and
\* its brand-suffixed copy.
C13_LayoutGivenImages ==
    (Succeeded /\ script = "shell")
        => /\ PagesExist
           /\ Exists(fs, LogoPath) <=> HadImage(sh.INIT_LOGO_FILE, LogoPath, api.logo)
           /\ Exists(fs, sh.INIT_LOGO_FILE) <=> HadImage(sh.INIT_LOGO_FILE, LogoPath, api.logo)
           /\ Exists(fs, HeroPath) <=> HadImage(sh.INIT_HERO_FILE, HeroPath, api.hero)
           /\ Exists(fs, sh.INIT_HERO_FILE) <=> HadImage(sh.INIT_HERO_FILE, HeroPath, api.hero)

\* a successful run without credential on a directory that has a hero image
\* and no logo: pages and both hero files are there, no logo file is
C13_Witness ==
    /\ Succeeded
    /\ script = "shell"
    /\ ~key
    /\ ~Exists(fsStart, LogoPath)
    /\ ~Exists(fsStart, sh.INIT_LOGO_FILE)
    /\ Exists(fsStart, HeroPath)
    /\ PagesExist
    /\ ~Exists(fs, LogoPath)
    /\ Exists(fs, sh.INIT_HERO_FILE)

\* the policy pages of this run have been written
PolicyWritten ==
    /\ script = "shell"
    /\ pc \in {"patch", "post", "finish"} \/ Succeeded

\* C14: each of the three policy pages contains the domain as given and a
\* mailto:info@<domain> link.
C14_PolicyPagesNameDomain ==
    PolicyWritten
        => \A p \in Range(PolicyPages) :
              /\ Exists(fs, p)
              /\ Contains(fs[p], sh.INIT_DOMAIN)
              /\ Contains(fs[p], <<"mailto:info@">> \o sh.INIT_DOMAIN \o <<"\">info@">>)

\* second run with a domain that contains the historical domain: the pages of
\* the first run went through the substitution pass and were written anew
C14_Witness ==
    /\ Succeeded
    /\ script = "shell"
    /\ runNo = 2
    /\ sh.INIT_DOMAIN = <<"new", "myugc.studio">>
    /\ sh.INIT_BRAND = <<"A", "&", "B">>
    /\ Contains(fs[PolicyPages[3]], <<"mailto:info@", "new", "myugc.studio", "\">info@">>)

\* the colour symbols that are a '#' followed by exactly six hexadecimal digits
SixDigitHex == HexSyms \ {"#fff"}

\* the value written for colour key k in the text of theme.config.js
ColorWritten(c, k) ==
    LET i == CHOOSE i \in 1..(Len(c) - 4) : c[i] = k /\ c[i + 1] = ": "
    IN  IF c[i + 4] = "\"" THEN c[i + 3] ELSE "?"

\* the markers of the policy page style sheet that precede bg0, bg1, bg2,
\* accent and accent-hover
StyleMarkers ==
    {":root{--bg-dark:", " 0%,", " 50%,", " 100%);--accent:", ";--accent-hover:"}

\* C15: every palette colour written to the output is a '#' followed by
\* exactly six hexadecimal digits, whatever the topic and the responses of
\* the external service.
C15_ColoursAreSixDigitHex ==
    Succeeded
        => IF script = "shell"
           THEN \A m \in StyleMarkers :
                   SymbolAfter(fs[PolicyPages[1]], m) \in SixDigitHex
           ELSE \A k \in Range(ColorKeys) :
                   ColorWritten(fs[ThemeConfigPath], k) \in SixDigitHex

\* the other invocation still has steps to take
OtherUnfinished == other # << >> /\ other[1].pc # "done"

\* C16: two invocations on one directory are not synchronized: wherever the
\* running invocation is, the other one can be resumed as long as it has
\* steps left.
C16_NotSynchronized ==
    OtherUnfinished => ENABLED Switch

\* both invocations ended with status zero
BothSucceeded ==
    /\ Succeeded
    /\ other # << >>
    /\ other[1].pc = "done"
    /\ other[1].exitCode = 0

\* both invocations succeeded and the home page carries the brand of one
\* while the blog listing page carries the brand of the other
C16_Witness ==
    /\ BothSucceeded
    /\ SymbolAfter(fs[IndexPath], "<title>") = "B"
    /\ SymbolAfter(fs[BlogPages[1]], "<title>") = "Acme"
    /\ Contains(fs[PolicyPages[1]], <<"yas.wine">>)
    /\ Contains(fs[IndexPath], <<"b.example">>)

\* number of the steps of the claimed sequence that are complete when the
\* placeholder revision is at position p: 1 validation, 2 bootstrap,
\* 3 palette, 4 asset provisioning, 5 page materialization, 6 policy pages,
\* 7 logo post-processing
StepsDone(p) ==
    CASE p = "args" -> 0
      [] p = "bootstrap" -> 1
      [] p = "palette" -> 2
      [] p \in {"logo", "hero", "canon"} -> 3
      [] p \in {"shells", "pages", "pass"} -> 4
      [] p = "policy" -> 5
      [] p \in {"patch", "post"} -> 6
      [] p = "finish" -> 7

\* what the completed steps have left behind, and what the steps still to
\* come have not yet done, at position p with n steps complete
EffectsMatch(n, env, out, left, requests, f) ==
    /\ (n >= 1) <=> (env.INIT_DOMAIN # << >>)
    /\ (n >= 2) <=> ("Bootstrap done" \in out)
    /\ (n >= 3) <=> (env.INIT_BG0 # << >>)
    /\ (n <= 3) => (left = << >> /\ "[ok] html placeholders applied" \notin out)
    /\ (n >= 5) => /\ left = << >>
                   /\ Exists(f, IndexPath)
                   /\ \A q \in Range(BlogPages) : Exists(f, q)
    /\ (n >= 6) => \A q \in Range(PolicyPages) :
                      Contains(f[q], <<"mailto:info@">> \o env.INIT_DOMAIN)
    /\ (n <= 6) <=> (requests.convert = "none")

\* one step of a run keeps the order: it stays within the current step of
\* the sequence, completes it and enters the next one, or ends the script
OrderedStep ==
    (script = "shell" /\ pc \notin {"done", "idle"})
        => \/ pc' = "done"
           \/ /\ StepsDone(pc') \in {StepsDone(pc), StepsDone(pc) + 1}
              /\ EffectsMatch(StepsDone(pc'), sh', stdout', todo', api', fs')

\* C17: in every run the steps happen in the order validation, bootstrap,
\* palette, asset provisioning, page materialization, policy pages, logo
\* post-processing, each one complete before the next one starts.
C17_StepsInOrder == [][OrderedStep]_vars

\* every step but the last is complete and the last has not started
C17_Witness ==
    /\ script = "shell"
    /\ pc = "post"
    /\ key
    /\ api.logo = "ok"
    /\ EffectsMatch(6, sh, stdout, todo, api, fs)
    /\ fs[sh.INIT_LOGO_FILE] = GeneratedLogo
    /\ "[ok] html placeholders applied" \in stdout

PastGeneration ==
    IF script = "shell"
    THEN pc \in {"canon", "shells", "pages", "pass", "policy", "patch", "post", "finish"}
            \/ (pc = "done" /\ sh.INIT_LOGO_FILE # << >>)
    ELSE pc \in {"config", "finish"} \/ (pc = "done" /\ sh.py # << >>)

\* C19: with a credential each generation request of a run is sent exactly
\* once, in the order of the script, whatever the outcome of the requests
\* before it; no request is sent a second time.
C19_RequestsExactlyOnce ==
    /\ \A i, j \in 1..Len(api.sent) : api.sent[i] = api.sent[j] => i = j
    /\ (PastGeneration /\ key)
          => api.sent = IF script = "shell" THEN <<"logo", "hero">>
                        ELSE <<"copy", "logo", "hero">>

\* the logo request failed, the hero request was sent all the same and
\* succeeded, and neither was sent again
C19_Witness ==
    /\ Succeeded
    /\ script = "shell"
    /\ key
    /\ api.logo = "network"
    /\ api.hero = "ok"
    /\ api.sent = <<"logo", "hero">>
    /\ fs[sh.INIT_HERO_FILE] = GeneratedHero

\* the invocation ended inside the substitution loop with files left to do
CrashedInPass == pc = "done" /\ todo # << >>

\* the HTML files the interrupted walk had already rewritten
Walked == HtmlFiles(fs) \ Range(todo)

\* C20: when the substitution loop of a run on a site whose shells still hold
\* placeholder tokens is interrupted after its first file, the site is left
\* partially substituted: a rewritten file is free of tokens, a file the walk
\* had not reached still contains them, and every rewritten file that held
\* tokens when the run began no longer has its pre-run content.
C20_CrashLeavesPartialSite ==
    (CrashedInPass /\ Walked # {} /\ HasPlaceholder(fsStart[HomeShellPath]))
        => /\ \E p \in Walked : ~HasPlaceholder(fs[p])
           /\ \E q \in Range(todo) : HasPlaceholder(fs[q])
           /\ \A p \in Walked :
                 (Exists(fsStart, p) /\ HasPlaceholder(fsStart[p]))
                     => fs[p] # fsStart[p]

\* the loop died after the article template and the blog listings: the
\* template is rewritten, the home page and the shells still hold tokens
C20_Witness ==
    /\ CrashedInPass
    /\ runNo = 1
    /\ Head(todo) = IndexPath
    /\ HasPlaceholder(fsStart[TemplatePath])
    /\ ~HasPlaceholder(fs[TemplatePath])
    /\ fs[TemplatePath] # fsStart[TemplatePath]
    /\ HasPlaceholder(fs[IndexPath])
    /\ HasPlaceholder(fs[HomeShellPath])

\* the HTML files are the same files with the same content after the step
HtmlKept ==
    /\ HtmlFiles(fs') = HtmlFiles(fs)
    /\ \A p \in HtmlFiles(fs) : fs'[p] = fs[p]

PostProcessStep ==
    /\ pc = "post" => (pc' = "finish" /\ HtmlKept)
    /\ pc = "finish" => (pc' = "done" /\ exitCode' = 0 /\ fs' = fs)

\* C21: whatever the image tool does (absent, probe fails, conversion fails,
\* succeeds), the post-processing step goes on to the final echo and leaves
\* every HTML file (pages, policy pages) as it was, and the script then ends
\* with status zero.
C21_PostProcessBestEffort == [][PostProcessStep]_vars

\* a run with a generated logo whose conversion failed ended with status zero
\* and with its pages and policy pages in place
C21_Witness ==
    /\ Succeeded
    /\ script = "shell"
    /\ api.logo = "ok"
    /\ api.convert = "convertfail"
    /\ Materialized
    /\ \A p \in HtmlFiles(fs) : ~HasPlaceholder(fs[p])

\* the command line gives a non-empty value for --subscribe-email
EmailGiven(a) ==
    \E i \in 1..(Len(a) - 1) :
        i % 2 = 1 /\ a[i] = Flag("--subscribe-email") /\ a[i + 1] # << >>

\* the address the run is to put in place of __SUBSCRIBE_EMAIL__
ExpectedEmail ==
    IF EmailGiven(argv)
    THEN LET i == CHOOSE k \in 1..(Len(argv) - 1) :
                     k % 2 = 1 /\ argv[k] = Flag("--subscribe-email")
         IN  argv[i + 1]
    ELSE <<"info@">> \o sh.INIT_DOMAIN

\* the walk has rewritten index.html and the run is not over
HomeSubstituted ==
    /\ script = "shell"
    /\ \/ pc \in {"policy", "patch", "post", "finish"}
       \/ pc = "pass" /\ IndexPath \notin Range(todo)

\* C22: the value put in place of __SUBSCRIBE_EMAIL__ is info@<domain> when
\* --subscribe-email is not given and the given value, unchanged, when it is;
\* on the first run over a freshly copied template the home page then carries
\* it after 'mailto:' (unless the value itself contains the historical domain,
\* which the walk rewrites afterwards).
C22_SubscribeEmailDefault ==
    HomeSubstituted
        => /\ ApplyRepl(<<"mailto:", "__SUBSCRIBE_EMAIL__">>, ReplTable(sh))
                 = <<"mailto:">> \o ExpectedEmail
           /\ (runNo = 1 /\ ~Contains(ExpectedEmail, <<"myugc.studio">>))
                 => Contains(fs[IndexPath], <<"mailto:">> \o ExpectedEmail)

\* a first run without the flag, on a domain that is not the historical one
C22_Witness ==
    /\ HomeSubstituted
    /\ pc = "finish"
    /\ runNo = 1
    /\ ~EmailGiven(argv)
    /\ sh.INIT_DOMAIN = <<"__BRAND__", ".com">>
    /\ Contains(fs[IndexPath], <<"mailto:", "info@", "__BRAND__", ".com">>)

\* a step of the script on page load: if it redirects, it is the first
\* redirect since the user's navigation, the visitor is no bot and prefers a
\* language other than English, the path had no locale prefix, and the
\* script will not redirect again from the page it goes to
RedirectStep ==
    (page = "load" /\ location' # location)
        => /\ hops = 0
           /\ ~navigator.bot
           /\ preferredLang(navigator.language) # "en"
           /\ currentLang(location) = "en"
           /\ RedirectTarget' = << >>

\* C23: the auto redirect never loops: after one redirect the script run on
\* the resulting path redirects no further, and it does not redirect at all
\* from a path with a locale prefix, for an English preference, or for a bot.
C23_RedirectAtMostOnce == [][RedirectStep]_vars

\* a visitor preferring German was redirected once and the page settled
C23_Witness ==
    /\ page = "ready"
    /\ hops = 1
    /\ preferredLang(navigator.language) = "de"
    /\ location = <<"/", "de", "/", "x">>

\* C24: once the choice made in the switcher is stored, the script redirects
\* on no later page load, whatever the path and the browser language.
C24_NoRedirectAfterChoice ==
    localStorage.site_lang_selected = "1" => (hops = 0 /\ RedirectTarget = << >>)

\* a visitor preferring Russian chose English, the choice was stored, and the
\* English page stayed
C24_Witness ==
    /\ page = "ready"
    /\ localStorage.site_lang_selected = "1"
    /\ sel = "en"
    /\ ~navigator.bot
    /\ preferredLang(navigator.language) = "ru"
    /\ currentLang(location) = "en"
    /\ hops = 0

\* C25: the path the switcher builds for a language is detected as that
\* language, for every supported language and every path.
C25_BuiltPathHasItsLanguage ==
    (page = "load" /\ sel # "none" /\ hops = 0) => currentLang(location) = sel

\* C26: layout.js and i18n-switcher.js detect the same locale for every path.
C26_SameLocale == layoutLocale(location) = currentLang(location)

\* a path under a locale prefix, and a path that only begins like one
C26_Witness ==
    /\ page = "ready"
    /\ location = <<"/", "de", "x", "/">>
    /\ layoutLocale(location) = "en"
    /\ currentLang(location) = "en"
    /\ layoutLocale(SubSeq(location, 1, 2)) = "de"
    /\ currentLang(SubSeq(location, 1, 2)) = "de"

\* no sendMessage call is waiting at an await
AllSendsFinished == pending.fetch = 0 /\ pending.stream = 0

\* C27: once every sendMessage call has finished, however its request ended,
\* no typing indicator is left in the message list.
C27_NoTypingLeft ==
    AllSendsFinished => Count(msgContainer, "typing") = 0

\* C28: from the first user message on, the roles of the history alternate,
\* whatever sends, replies and failures have happened.
C28_RolesAlternate ==
    \A i \in 1..(Len(history) - 1) :
        (\E j \in 1..i : history[j] = "user") => history[i] # history[i + 1]

\* the step is a call of optimizeOne that ended with an error
FailedCall == imgLog' # imgLog

\* the file the step works on
Current == Head(imgQueue)

\* the call leaves every file of the directory still to do in the queue
RestStillQueued == imgQueue' = Tail(imgQueue)

\* C29 as stated: a failed call leaves the file with the content it had, and
\* the remaining files are still processed.
C29_FailureKeepsOriginal ==
    [][FailedCall => (imgFs'[Current] = imgFs[Current] /\ RestStillQueued)]_vars

\* C29: a failed call leaves the file either with the content it had (failure
\* up to the rename) or, when the failure is in the WebP step that follows the
\* rename, with the completely written re-encoding; the file is never left
\* partially written, and the remaining files of the directory stay queued.
C29_FailureKeepsWholeFile ==
    [][FailedCall =>
          /\ imgFs'[Current] =
                IF imgLog'[Len(imgLog')].step \in {"webpread", "webpencode"}
                THEN "opt" ELSE imgFs[Current]
          /\ imgFs'[Current] # "partial" \/ imgFs[Current] = "partial"
          /\ RestStillQueued]_vars

\* the first file failed while it was encoded and kept its content, the next
\* file of the directory and the file of the next directory were re-encoded,
\* and every directory has been gone through
C29_Witness ==
    /\ imgDir = Len(TARGET_DIRECTORIES)
    /\ imgQueue = << >>
    /\ imgLog = << [file |-> <<"blog", "a", ".png">>, step |-> "encode"] >>
    /\ imgFs[<<"blog", "a", ".png">>] = "orig"
    /\ imgFs[<<"blog", "b", ".JPG">>] = "opt"
    /\ imgFs[<<"gallery_images", "g", ".jpeg">>] = "opt"
    /\ Len(imgCalls) = 7

\* the url blocks of sitemap.xml that name a video page
WatchBlocks == SelectSeq(sitemap, LAMBDA b : Len(b) >= 2 /\ b[2] = "https://myugc.studio/watch/")

\* C30: after any number of runs against the same response sitemap.xml has
\* each /watch/<id>.html URL at most once, and the last run added as many
\* entries as it wrote pages.
C30_SitemapEntriesUnique ==
    /\ \A i, j \in 1..Len(WatchBlocks) : WatchBlocks[i] = WatchBlocks[j] => i = j
    /\ genOut # << >> /\ genOut[1].status = 0 => genOut[1].added = genOut[1].written

====
